---- MODULE Spec2Model ----
(***************************************************************************)
(* A model of rust_voronoi_planet: the configuration builder (config.rs),  *)
(* the generation pipeline (generation/mod.rs, lloyd.rs, voronoi.rs,       *)
(* planet.rs) and the planet's queries (planet.rs).                        *)
(*                                                                         *)
(* Three specifications share the variables:                               *)
(*   SpecBuilder  the PlanetConfigBuilder call sequences,                  *)
(*   Spec         one generate_with_sampler call, step by step,            *)
(*   SpecPlanet   a generated planet and the queries on it.                *)
(*                                                                         *)
(* Geometry (coordinates, circumcenters) is not part of the state: a point *)
(* set is its length, a cell is its id and its neighbor list.  The convex  *)
(* hull (parry3d) is an external provider: its result is a nondeterministic*)
(* choice among the meshes the bounds allow.                               *)
(***************************************************************************)
EXTENDS Integers, Sequences, FiniteSets, Bags, TLC

VARIABLES
    builder,    \* the PlanetConfigBuilder value the caller holds
    callResult, \* what the last builder call returned: "none", "Ok", "InvalidConfig"
    built,      \* the PlanetConfig of the last successful build(), or NoConfig
    given,      \* the seeds given to the builder since new(), last call wins (history)
    pc,         \* position inside generate_with_sampler / generate_raw_cells
    config,     \* the PlanetConfig handed to generate_with_sampler
    points,     \* points.len() of the current point set
    iteration,  \* the Lloyd loop counter
    hullCalls,  \* number of transformation::convex_hull calls so far
    cells,      \* the cell sequence (RawCell, then VoronoiCell): id and neighbors
    dropped,    \* points the hull passes did not return as vertices (history)
    last_displacement,  \* max_displacement of the last Lloyd iteration run
    sampled,    \* arguments of the terrain sampler calls, in call order
    outcome,    \* what generate_with_sampler returned: "running", "Ok", "Err", "panic"
    query,      \* the last query issued on the planet
    answer,     \* what that query returned
    hullMesh,   \* the mesh the hull provider returns to both compared runs
    angles,     \* angle rank of each triangle's circumcenter (geometry)
    runs,       \* the cells each of the two compared generate_cells runs built
    planetCells,    \* id and center of the cells the spatial index is built for
    spatial_index,  \* the planet's SpatialIndex
    lookup,     \* the last find_cell_at call: its position and the id returned
    readers,    \* the query each concurrent reader has in progress, its locals
    pointLengths,   \* |p| of each point of the current point set
    cellLengths,    \* |center| and the |vertex| of each boundary vertex, per cell
    fib,        \* the point distributor: its arguments, rng, position and output
    meshgen,    \* generate_mesh_with_visibility: its arguments, loop position and MeshData
    hashCall    \* the Perlin hash call: its arguments, locals and result

vars == <<builder, callResult, built, given, pc, config, points, iteration, hullCalls,
          dropped, last_displacement, cells, sampled, outcome, query, answer,
          hullMesh, angles,
          runs, planetCells, spatial_index, lookup, readers, pointLengths,
          cellLengths,
          fib,
          meshgen,
          hashCall>>

builderVars == <<builder, callResult, built, given>>
pipelineVars ==
    <<pc, config, points, iteration, hullCalls, dropped, last_displacement, cells,
      sampled, outcome>>
queryVars == <<query, answer>>
runVars == <<hullMesh, angles, runs>>
indexVars == <<planetCells, spatial_index, lookup>>
readerVars == <<readers>>
sphereVars == <<pointLengths, cellLengths>>
fibVars == <<fib>>
meshVars == <<meshgen>>
hashVars == <<hashCall>>

-----------------------------------------------------------------------------
(* f32 values.  A value is NaN or a finite number in fixed point; the       *)
(* comparisons are IEEE 754's: every comparison with NaN is false.          *)

NaN == [nan |-> TRUE, v |-> 0]
F(x) == [nan |-> FALSE, v |-> x]
FLt(a, b) == ~a.nan /\ ~b.nan /\ a.v < b.v
FLe(a, b) == ~a.nan /\ ~b.nan /\ a.v <= b.v
FGt(a, b) == ~a.nan /\ ~b.nan /\ a.v > b.v
FGe(a, b) == ~a.nan /\ ~b.nan /\ a.v >= b.v
FMul(a, b) == IF a.nan \/ b.nan THEN NaN ELSE F(a.v * b.v)

(* Option<T> *)
None == [some |-> FALSE, v |-> 0]
Some(x) == [some |-> TRUE, v |-> x]
NoneF == [some |-> FALSE, v |-> F(0)]
SomeF(x) == [some |-> TRUE, v |-> x]

-----------------------------------------------------------------------------
(* config.rs: PlanetSize, PlanetConfig, PlanetConfigBuilder.                *)
(* Radii are in tenths of a unit, convergence thresholds in hundredths.     *)

TinyCells == 5000
SmallCells == 11000
MediumCells == 17000
LargeCells == 26000
TinyRadius == 113
SmallRadius == 167
MediumRadius == 209
LargeRadius == 258
DefaultLloydIterations == 5
DefaultLloydConvergence == 1
MaxLloydIterations == 20

Preset(name) == [kind |-> name, cell_count |-> 0, radius |-> F(0)]
Custom(n, r) == [kind |-> "Custom", cell_count |-> n, radius |-> r]

PlanetSize_cell_count(size) ==
    CASE size.kind = "Tiny" -> TinyCells
      [] size.kind = "Small" -> SmallCells
      [] size.kind = "Medium" -> MediumCells
      [] size.kind = "Large" -> LargeCells
      [] size.kind = "Custom" -> size.cell_count

PlanetSize_sphere_radius(size) ==
    CASE size.kind = "Tiny" -> F(TinyRadius)
      [] size.kind = "Small" -> F(SmallRadius)
      [] size.kind = "Medium" -> F(MediumRadius)
      [] size.kind = "Large" -> F(LargeRadius)
      [] size.kind = "Custom" -> size.radius

PlanetSize_default == Preset("Large")

PlanetConfig_cell_count(c) == PlanetSize_cell_count(c.planet_size)

PlanetConfig_radius(c) ==
    IF c.radius_override.some THEN c.radius_override.v
    ELSE PlanetSize_sphere_radius(c.planet_size)

PlanetConfigBuilder_new ==
    [seed |-> None,
     planet_size |-> PlanetSize_default,
     lloyd_iterations |-> DefaultLloydIterations,
     lloyd_convergence |-> F(DefaultLloydConvergence),
     terrain_seed |-> None,
     radius_override |-> NoneF]

Moved == [moved |-> TRUE]
Live(b) == [moved |-> FALSE, b |-> b]
NoConfig == [some |-> FALSE]
SomeConfig(c) == [some |-> TRUE, c |-> c]

(* The arguments the builder calls are tried with. *)
MaxSeed == 1
SeedInputs == 0..MaxSeed
SizeInputs ==
    {Preset("Tiny"), Preset("Large")}
        \cup {Custom(n, r) : n \in {0, 3}, r \in {F(-50), F(0), F(100)}}
IterationInputs == {0, MaxLloydIterations, MaxLloydIterations + 1, 1000}
ConvergenceInputs == {F(-1), F(0), F(1), NaN}
RadiusInputs == {F(-50), F(0), F(100), NaN}

(* The guard of lloyd_iterations, lloyd_convergence, radius_override. *)
IterationsRejected(iterations) == iterations > MaxLloydIterations
ConvergenceRejected(threshold) == FLt(threshold, F(0))
RadiusRejected(radius) == FLe(radius, F(0))

BuildConfig_planet_seed(b, random) ==
    LET seed == IF b.seed.some THEN b.seed.v ELSE random
    IN  [seed |-> seed,
         planet_size |-> b.planet_size,
         lloyd_iterations |-> b.lloyd_iterations,
         lloyd_convergence |-> b.lloyd_convergence,
         terrain_seed |-> seed,
         radius_override |-> b.radius_override]

BuildConfig(b, random) ==
    LET seed == IF b.seed.some THEN b.seed.v ELSE random
        terrain_seed == IF b.terrain_seed.some THEN b.terrain_seed.v ELSE seed
    IN  [seed |-> seed,
         planet_size |-> b.planet_size,
         lloyd_iterations |-> b.lloyd_iterations,
         lloyd_convergence |-> b.lloyd_convergence,
         terrain_seed |-> terrain_seed,
         radius_override |-> b.radius_override]

-----------------------------------------------------------------------------
(* The convex hull provider (parry3d transformation::convex_hull), called   *)
(* at lloyd.rs:107 and voronoi.rs:48.  It returns (vertices, triangles),    *)
(* the triangles indexing into the returned vertex list, or panics (it      *)
(* unwraps a failed hull).  The returned vertices are hull vertices only: a *)
(* point that is not extreme is not returned.  The empty input gives the    *)
(* empty mesh.  A mesh is [nv, tris]: vertices.len() and the triangle list; *)
(* a triangle is a triple of vertex indices 0..nv-1.  Degenerate triples    *)
(* (parry3d returns <<0,0,0>> for a single point, <<0,1,0>> for a segment)  *)
(* are meshes too.  Vertex order inside a triangle and the order of the     *)
(* triangles only matter to the geometry, so the meshes tried hold sorted   *)
(* triples in ascending order.                                              *)

MaxCells == 4   \* largest cell_count tried
MaxTris == 2    \* longest triangle list tried

HullPanic == [panic |-> TRUE, nv |-> 0, tris |-> <<>>]
Mesh(nv, tris) == [panic |-> FALSE, nv |-> nv, tris |-> tris]

Triples(nv) ==
    {<<a, b, c>> : a \in 0..(nv - 1), b \in 0..(nv - 1), c \in 0..(nv - 1)}
SortedTriples(nv) == {t \in Triples(nv) : t[1] <= t[2] /\ t[2] <= t[3]}
TripleKey(t) == (t[1] * (MaxCells + 2) + t[2]) * (MaxCells + 2) + t[3]

RECURSIVE TriangleLists(_, _)
TriangleLists(nv, len) ==
    IF len = 0 THEN {<<>>}
    ELSE LET shorter == TriangleLists(nv, len - 1)
             longest == {s \in shorter : Len(s) = len - 1}
             ext == {p \in longest \X SortedTriples(nv) :
                        \/ p[1] = <<>>
                        \/ TripleKey(p[1][Len(p[1])]) < TripleKey(p[2])}
         IN  shorter \cup {Append(p[1], p[2]) : p \in ext}

HullMeshes(n) ==
    IF n = 0 THEN {Mesh(0, <<>>)}
    ELSE {HullPanic}
            \cup UNION {{Mesh(nv, tris) : tris \in TriangleLists(nv, MaxTris)} :
                          nv \in 1..n}

HullTable == [n \in 0..MaxCells |-> HullMeshes(n)]
convex_hull(n) == HullTable[n]

-----------------------------------------------------------------------------
(* generation/voronoi.rs: the adjacency maps and the cells.                 *)
(* Triangle indices are 0-based as in the code: triangle t is tris[t + 1].  *)

RECURSIVE SortedSeq(_)
SortedSeq(S) ==
    IF S = {} THEN <<>>
    ELSE LET m == CHOOSE x \in S : \A y \in S : x <= y
         IN  <<m>> \o SortedSeq(S \ {m})

SeqToSet(s) == {s[i] : i \in 1..Len(s)}
Count(s, x) == Cardinality({i \in 1..Len(s) : s[i] = x})

(* vertex -> the triangles holding it, one entry per occurrence, in the    *)
(* order of the pass over the triangles (three pushes per triangle).        *)
RECURSIVE PushTriangles(_, _, _)
PushTriangles(tris, v, t) ==
    IF t > Len(tris) THEN <<>>
    ELSE LET tri == tris[t]
             hits == SelectSeq(tri, LAMBDA x : x = v)
         IN  [i \in 1..Len(hits) |-> t - 1] \o PushTriangles(tris, v, t + 1)

build_vertex_triangle_map_dense(tris) ==
    LET keys == UNION {SeqToSet(tris[t]) : t \in 1..Len(tris)}
    IN  [v \in {u \in 0..MaxCells : \E k \in keys : u <= k}
            |-> PushTriangles(tris, v, 1)]

build_vertex_triangle_map(tris) ==
    LET keys == UNION {SeqToSet(tris[t]) : t \in 1..Len(tris)}
    IN  [v \in keys |-> PushTriangles(tris, v, 1)]

(* triangle -> the vertices holding it.  The code fills each list while    *)
(* iterating a HashMap, whose order is unspecified: the list is kept as a   *)
(* bag (a vertex once per occurrence of the triangle in its list).          *)
build_triangle_vertex_map(vertex_triangle_map) ==
    LET tkeys == UNION {SeqToSet(vertex_triangle_map[v]) :
                          v \in DOMAIN vertex_triangle_map}
    IN  [t \in tkeys |->
            [v \in {u \in DOMAIN vertex_triangle_map :
                      Count(vertex_triangle_map[u], t) > 0}
               |-> Count(vertex_triangle_map[v], t)]]

find_cell_neighbors_bug(cell_idx, vertex_triangle_map, triangle_vertex_map) ==
    LET my_triangles == vertex_triangle_map[cell_idx]
        neighbors == {vertex \in UNION {BagToSet(triangle_vertex_map[t]) :
                                          t \in SeqToSet(my_triangles)
                                               \cap DOMAIN triangle_vertex_map} :
                        vertex > cell_idx}
    IN  SortedSeq(neighbors)

find_cell_neighbors_self(cell_idx, vertex_triangle_map, triangle_vertex_map) ==
    LET my_triangles == vertex_triangle_map[cell_idx]
        neighbors == UNION {BagToSet(triangle_vertex_map[t]) :
                              t \in SeqToSet(my_triangles)
                                   \cap DOMAIN triangle_vertex_map}
    IN  SortedSeq(neighbors)

find_cell_neighbors(cell_idx, vertex_triangle_map, triangle_vertex_map) ==
    LET my_triangles == vertex_triangle_map[cell_idx]
        neighbors == {vertex \in UNION {BagToSet(triangle_vertex_map[t]) :
                                          t \in SeqToSet(my_triangles)
                                               \cap DOMAIN triangle_vertex_map} :
                        vertex # cell_idx}
    IN  SortedSeq(neighbors)

(* The result of a call that may panic. *)
Panicked == [tag |-> "panic", v |-> <<>>]
Ok(v) == [tag |-> "Ok", v |-> v]

RawCell(id, neighbors) == [id |-> id, neighbors |-> neighbors]

(* generate_cells after the hull call: Ok(cells), one cell per hull vertex; *)
(* indexing the adjacency map with a vertex that is in no triangle panics.  *)
generate_cells_err(mesh) ==
    LET vertex_triangle_map == build_vertex_triangle_map(mesh.tris)
        triangle_vertex_map == build_triangle_vertex_map(vertex_triangle_map)
    IN  IF mesh.nv < 4 \/ mesh.tris = <<>>
        THEN [tag |-> "Err", v |-> <<>>]
        ELSE IF \E vertex_idx \in 0..(mesh.nv - 1) :
                   vertex_idx \notin DOMAIN vertex_triangle_map
        THEN Panicked
        ELSE Ok([i \in 1..mesh.nv |->
                   RawCell(i - 1,
                           find_cell_neighbors(i - 1, vertex_triangle_map,
                                               triangle_vertex_map))])

generate_cells_from_one(mesh) ==
    LET vertex_triangle_map == build_vertex_triangle_map(mesh.tris)
        triangle_vertex_map == build_triangle_vertex_map(vertex_triangle_map)
    IN  IF \E vertex_idx \in 0..(mesh.nv - 1) :
              vertex_idx \notin DOMAIN vertex_triangle_map
        THEN Panicked
        ELSE Ok([i \in 1..mesh.nv |->
                   RawCell(i,
                           find_cell_neighbors(i - 1, vertex_triangle_map,
                                               triangle_vertex_map))])

generate_cells(mesh) ==
    LET vertex_triangle_map == build_vertex_triangle_map(mesh.tris)
        triangle_vertex_map == build_triangle_vertex_map(vertex_triangle_map)
    IN  IF \E vertex_idx \in 0..(mesh.nv - 1) :
              vertex_idx \notin DOMAIN vertex_triangle_map
        THEN Panicked
        ELSE Ok([i \in 1..mesh.nv |->
                   RawCell(i - 1,
                           find_cell_neighbors(i - 1, vertex_triangle_map,
                                               triangle_vertex_map))])

-----------------------------------------------------------------------------
(* generation/lloyd.rs.                                                     *)

MaxLloyd == 2   \* largest lloyd_iterations tried in the pipeline

(* max_displacement of one iteration comes out of the geometry: it starts   *)
(* at 0.0 and is only ever raised, so it is finite-or-infinite and >= 0.    *)
(* Displacements and thresholds are in thousandths (hundredths x tenths).   *)
DisplacementInputs == {F(0), F(99), F(100)}

(* compute_new_points after the hull call: one new point per hull vertex    *)
(* and the maximum displacement; indexing the adjacency map with a vertex   *)
(* that is in no triangle panics.                                           *)
compute_new_points_short(mesh, displacement) ==
    LET vertex_triangle_map == build_vertex_triangle_map(mesh.tris)
    IN  IF \E vertex_idx \in 0..(mesh.nv - 1) :
              vertex_idx \notin DOMAIN vertex_triangle_map
        THEN Panicked
        ELSE Ok([points |-> IF mesh.nv > 1 THEN mesh.nv - 1 ELSE mesh.nv,
                 max_displacement |->
                     IF mesh.nv = 0 THEN F(0) ELSE displacement])

compute_new_points(mesh, displacement) ==
    LET vertex_triangle_map == build_vertex_triangle_map(mesh.tris)
    IN  IF \E vertex_idx \in 0..(mesh.nv - 1) :
              vertex_idx \notin DOMAIN vertex_triangle_map
        THEN Panicked
        ELSE Ok([points |-> mesh.nv,
                 max_displacement |->
                     IF mesh.nv = 0 THEN F(0) ELSE displacement])

(* The early exit test of lloyd_relaxation_with_options (lloyd.rs:139). *)
Converged_le(options_threshold, radius, max_displacement) ==
    LET convergence_threshold == FMul(options_threshold, radius)
    IN  FLe(max_displacement, convergence_threshold)

Converged(options_threshold, radius, max_displacement) ==
    LET convergence_threshold == FMul(options_threshold, radius)
    IN  /\ FGt(convergence_threshold, F(0))
        /\ FLt(max_displacement, convergence_threshold)

-----------------------------------------------------------------------------
(* generation/points.rs is not among the sources: generate_sphere_points    *)
(* returns `count` points (the empty sequence for count = 0), as the        *)
(* point distributor of generation/fibonacci.rs does.                       *)
generate_sphere_points(count) == count

-----------------------------------------------------------------------------
(* planet.rs: the queries.                                                  *)

MaxHops == 2    \* largest hop count tried

get_cell(cs, id) ==
    IF id < Len(cs) THEN [some |-> TRUE, cell |-> cs[id + 1]]
    ELSE [some |-> FALSE, cell |-> RawCell(0, <<>>)]

get_neighbors(cs, cell_id) ==
    IF cell_id < Len(cs) THEN cs[cell_id + 1].neighbors ELSE <<>>

(* for &neighbor in get_neighbors(cell_id) { if visited.insert(neighbor)   *)
(* { next.push(neighbor) } }, from position i of the neighbor list.         *)
RECURSIVE VisitNeighbors(_, _, _, _)
VisitNeighbors(nbrs, i, visited, next) ==
    IF i > Len(nbrs) THEN [visited |-> visited, next |-> next]
    ELSE IF nbrs[i] \in visited
         THEN VisitNeighbors(nbrs, i + 1, visited, next)
         ELSE VisitNeighbors(nbrs, i + 1, visited \cup {nbrs[i]},
                             Append(next, nbrs[i]))

(* for &cell_id in &current { ... }, from position j of current. *)
RECURSIVE ExpandLevel(_, _, _, _, _)
ExpandLevel(cs, current, j, visited, next) ==
    IF j > Len(current) THEN [visited |-> visited, next |-> next]
    ELSE LET r == VisitNeighbors(get_neighbors(cs, current[j]), 1, visited, next)
         IN  ExpandLevel(cs, current, j + 1, r.visited, r.next)

(* for _ in 0..hops { ...; current = next }, with `left` rounds to go. *)
RECURSIVE BfsLevels(_, _, _, _)
BfsLevels(cs, current, visited, left) ==
    IF left = 0 THEN visited
    ELSE LET r == ExpandLevel(cs, current, 1, visited, <<>>)
         IN  BfsLevels(cs, r.next, r.visited, left - 1)

RECURSIVE BfsLevelsStuck(_, _, _, _)
BfsLevelsStuck(cs, current, visited, left) ==
    IF left = 0 THEN visited
    ELSE LET r == ExpandLevel(cs, current, 1, visited, <<>>)
         IN  BfsLevelsStuck(cs, current, r.visited, left - 1)

(* The returned Vec is the visited HashSet in its iteration order, which is *)
(* unspecified: the result is kept as a bag.                                *)
find_cells_within_radius_stuck(cs, center_id, hops) ==
    IF center_id >= Len(cs) THEN EmptyBag
    ELSE SetToBag(BfsLevelsStuck(cs, <<center_id>>, {center_id}, hops))

find_cells_within_radius_extra(cs, center_id, hops) ==
    IF center_id >= Len(cs) THEN EmptyBag
    ELSE SetToBag(BfsLevels(cs, <<center_id>>, {center_id}, hops + 1))

find_cells_within_radius_unguarded(cs, center_id, hops) ==
    SetToBag(BfsLevels(cs, <<center_id>>, {center_id}, hops))

find_cells_within_radius_even(cs, center_id, hops) ==
    IF center_id >= Len(cs) THEN EmptyBag
    ELSE SetToBag(BfsLevels(cs, <<center_id>>, {center_id}, (hops \div 2) * 2))

find_cells_within_radius(cs, center_id, hops) ==
    IF center_id >= Len(cs) THEN EmptyBag
    ELSE SetToBag(BfsLevels(cs, <<center_id>>, {center_id}, hops))

IdlePipeline ==
    /\ pc = "idle" /\ config = NoConfig /\ points = 0 /\ iteration = 0
    /\ hullCalls = 0 /\ dropped = 0 /\ last_displacement = F(0)
    /\ cells = <<>> /\ sampled = <<>>
    /\ outcome = "none"
IdleQueries ==
    /\ query = [op |-> "none", id |-> 0, hops |-> 0]
    /\ answer = [kind |-> "none", some |-> FALSE, cell |-> RawCell(0, <<>>),
                 list |-> <<>>, bag |-> EmptyBag]
NoneGiven == [seed |-> None, terrain_seed |-> None, last |-> "none"]
IdleBuilder ==
    builder = Moved /\ callResult = "none" /\ built = NoConfig /\ given = NoneGiven
NoIndex == [built |-> FALSE, points |-> <<>>, visit |-> <<>>]
NoLookup == [asked |-> FALSE, position |-> <<0, 0, 0>>, id |-> 0]
IdleIndex == planetCells = <<>> /\ spatial_index = NoIndex /\ lookup = NoLookup
Readers == {"reader1", "reader2"}
IdleReader ==
    [op |-> "none", stage |-> "idle", id |-> 0, hops |-> 0,
     position |-> <<0, 0, 0>>, visited |-> {}, current |-> <<>>, left |-> 0,
     result |-> <<>>]
IdleReaders == readers = [r \in Readers |-> IdleReader]
IdleSphere == pointLengths = <<>> /\ cellLengths = <<>>
NotRun == [tag |-> "none", v |-> <<>>]
IdleFib == fib = [pc |-> "idle"]
IdleMesh == meshgen = [pc |-> "idle"]
IdleHash == hashCall = [pc |-> "idle"]
IdleRuns ==
    /\ hullMesh = [panic |-> FALSE, nv |-> 0, tris |-> <<>>]
    /\ angles = <<>>
    /\ runs = [r \in 1..2 |-> NotRun]

InitBuilder ==
    /\ builder = Live(PlanetConfigBuilder_new)
    /\ callResult = "none"
    /\ built = NoConfig
    /\ given = NoneGiven
    /\ IdlePipeline
    /\ IdleQueries
    /\ IdleRuns
    /\ IdleIndex
    /\ IdleReaders
    /\ IdleSphere
    /\ IdleFib
    /\ IdleMesh
    /\ IdleHash

BuilderNew ==
    /\ builder = Moved
    /\ builder' = Live(PlanetConfigBuilder_new)
    /\ callResult' = "none"
    /\ built' = NoConfig
    /\ given' = NoneGiven
    /\ UNCHANGED <<pipelineVars, queryVars, runVars, indexVars, readerVars, sphereVars,
                fibVars,
                meshVars,
                hashVars>>

BuilderSeed ==
    /\ ~builder.moved
    /\ \E s \in SeedInputs :
         /\ builder' = Live([builder.b EXCEPT !.seed = Some(s)])
         /\ given' = [given EXCEPT !.seed = Some(s), !.last = "seed"]
    /\ callResult' = "Ok"
    /\ UNCHANGED <<built, pipelineVars, queryVars, runVars, indexVars, readerVars, sphereVars,
                fibVars,
                meshVars,
                hashVars>>

BuilderPlanetSize ==
    /\ ~builder.moved
    /\ \E size \in SizeInputs :
         builder' = Live([builder.b EXCEPT !.planet_size = size])
    /\ callResult' = "Ok"
    /\ UNCHANGED <<built, given, pipelineVars, queryVars, runVars, indexVars, readerVars, sphereVars,
                fibVars,
                meshVars,
                hashVars>>

BuilderLloydIterations ==
    /\ ~builder.moved
    /\ \E n \in IterationInputs :
         IF IterationsRejected(n)
         THEN builder' = Moved /\ callResult' = "InvalidConfig"
         ELSE /\ builder' = Live([builder.b EXCEPT !.lloyd_iterations = n])
              /\ callResult' = "Ok"
    /\ UNCHANGED <<built, given, pipelineVars, queryVars, runVars, indexVars, readerVars, sphereVars,
                fibVars,
                meshVars,
                hashVars>>

BuilderLloydConvergence ==
    /\ ~builder.moved
    /\ \E t \in ConvergenceInputs :
         IF ConvergenceRejected(t)
         THEN builder' = Moved /\ callResult' = "InvalidConfig"
         ELSE /\ builder' = Live([builder.b EXCEPT !.lloyd_convergence = t])
              /\ callResult' = "Ok"
    /\ UNCHANGED <<built, given, pipelineVars, queryVars, runVars, indexVars, readerVars, sphereVars,
                fibVars,
                meshVars,
                hashVars>>

BuilderTerrainSeed ==
    /\ ~builder.moved
    /\ \E s \in SeedInputs :
         /\ builder' = Live([builder.b EXCEPT !.terrain_seed = Some(s)])
         /\ given' = [given EXCEPT !.terrain_seed = Some(s),
                                   !.last = "terrain_seed"]
    /\ callResult' = "Ok"
    /\ UNCHANGED <<built, pipelineVars, queryVars, runVars, indexVars, readerVars, sphereVars,
                fibVars,
                meshVars,
                hashVars>>

BuilderRadiusOverride ==
    /\ ~builder.moved
    /\ \E r \in RadiusInputs :
         IF RadiusRejected(r)
         THEN builder' = Moved /\ callResult' = "InvalidConfig"
         ELSE /\ builder' = Live([builder.b EXCEPT !.radius_override = SomeF(r)])
              /\ callResult' = "Ok"
    /\ UNCHANGED <<built, given, pipelineVars, queryVars, runVars, indexVars, readerVars, sphereVars,
                fibVars,
                meshVars,
                hashVars>>

BuilderBuild ==
    /\ ~builder.moved
    /\ \E random \in SeedInputs :
         built' = SomeConfig(BuildConfig(builder.b, random))
    /\ builder' = Moved
    /\ callResult' = "Ok"
    /\ UNCHANGED <<given, pipelineVars, queryVars, runVars, indexVars, readerVars, sphereVars,
                fibVars,
                meshVars,
                hashVars>>

NextBuilder ==
    \/ BuilderNew
    \/ BuilderSeed
    \/ BuilderPlanetSize
    \/ BuilderLloydIterations
    \/ BuilderLloydConvergence
    \/ BuilderTerrainSeed
    \/ BuilderRadiusOverride
    \/ BuilderBuild

SpecBuilder == InitBuilder /\ [][NextBuilder]_vars

-----------------------------------------------------------------------------
(* One generate_with_sampler call (planet.rs:123), through                  *)
(* generate_raw_cells (generation/mod.rs:22), then queries on the planet.   *)

PipelineConfigs ==
    {[seed |-> 0,
      planet_size |-> Custom(n, F(100)),
      lloyd_iterations |-> k,
      lloyd_convergence |-> t,
      terrain_seed |-> 0,
      radius_override |-> NoneF] :
        n \in 0..MaxCells, k \in 0..MaxLloyd, t \in {F(0), F(1)}}

Init ==
    /\ IdleBuilder
    /\ pc = "points"
    /\ config \in {SomeConfig(c) : c \in PipelineConfigs}
    /\ points = 0
    /\ iteration = 0
    /\ hullCalls = 0
    /\ dropped = 0
    /\ last_displacement = F(0)
    /\ cells = <<>>
    /\ sampled = <<>>
    /\ outcome = "running"
    /\ IdleQueries
    /\ IdleRuns
    /\ IdleIndex
    /\ IdleReaders
    /\ IdleSphere
    /\ IdleFib
    /\ IdleMesh
    /\ IdleHash

GeneratePoints_always_relax ==
    /\ pc = "points"
    /\ points' = generate_sphere_points(PlanetConfig_cell_count(config.c))
    /\ pc' = IF config.c.lloyd_iterations >= 0 THEN "lloyd" ELSE "cells"
    /\ UNCHANGED <<builderVars, config, iteration, hullCalls, dropped,
                   last_displacement, cells, sampled, outcome, queryVars, runVars,
                   indexVars, readerVars, sphereVars,
                fibVars,
                meshVars,
                hashVars>>

(* generation/mod.rs:27-38: the seed points, then the choice of the relaxer. *)
GeneratePoints ==
    /\ pc = "points"
    /\ points' = generate_sphere_points(PlanetConfig_cell_count(config.c))
    /\ pc' = IF config.c.lloyd_iterations > 0 THEN "lloyd" ELSE "cells"
    /\ UNCHANGED <<builderVars, config, iteration, hullCalls, dropped,
                   last_displacement, cells, sampled, outcome, queryVars, runVars,
                   indexVars, readerVars, sphereVars,
                fibVars,
                meshVars,
                hashVars>>

(* lloyd.rs:102-149: one pass of the loop body and the loop's exit test. *)
LloydIteration ==
    /\ pc = "lloyd"
    /\ iteration < config.c.lloyd_iterations
    /\ \E mesh \in convex_hull(points), displacement \in DisplacementInputs :
         LET r == IF mesh.panic THEN Panicked
                  ELSE compute_new_points(mesh, displacement)
         IN  /\ hullCalls' = hullCalls + 1
             /\ IF r.tag = "panic"
                THEN /\ pc' = "done"
                     /\ outcome' = "panic"
                     /\ UNCHANGED <<points, iteration, dropped, last_displacement>>
                ELSE /\ points' = r.v.points
                     /\ dropped' = dropped + (points - mesh.nv)
                     /\ last_displacement' = r.v.max_displacement
                     /\ iteration' = iteration + 1
                     /\ pc' = IF \/ Converged(config.c.lloyd_convergence,
                                              PlanetConfig_radius(config.c),
                                              r.v.max_displacement)
                                 \/ iteration + 1 >= config.c.lloyd_iterations
                              THEN "cells" ELSE "lloyd"
                     /\ UNCHANGED outcome
    /\ UNCHANGED <<builderVars, config, cells, sampled, queryVars, runVars, indexVars, readerVars, sphereVars,
                fibVars,
                meshVars,
                hashVars>>

GenerateCells_retry ==
    /\ pc = "cells"
    /\ \E mesh \in convex_hull(points) :
         LET r == IF mesh.panic THEN Panicked ELSE generate_cells(mesh)
         IN  /\ hullCalls' = hullCalls + 1
             /\ IF r.tag = "panic"
                THEN UNCHANGED <<pc, outcome, cells, dropped>>
                ELSE IF r.tag = "Err"
                THEN /\ pc' = "done"
                     /\ outcome' = "Err"
                     /\ UNCHANGED <<cells, dropped>>
                ELSE /\ pc' = "sample"
                     /\ cells' = r.v
                     /\ dropped' = dropped + (points - mesh.nv)
                     /\ UNCHANGED outcome
    /\ UNCHANGED <<builderVars, config, points, iteration, last_displacement, sampled,
                   queryVars, runVars, indexVars, readerVars, sphereVars,
                fibVars,
                meshVars,
                hashVars>>

(* voronoi.rs:46-98 and the `?` of planet.rs:130. *)
GenerateCells ==
    /\ pc = "cells"
    /\ \E mesh \in convex_hull(points) :
         LET r == IF mesh.panic THEN Panicked ELSE generate_cells(mesh)
         IN  /\ hullCalls' = hullCalls + 1
             /\ IF r.tag = "panic"
                THEN /\ pc' = "done"
                     /\ outcome' = "panic"
                     /\ UNCHANGED <<cells, dropped>>
                ELSE IF r.tag = "Err"
                THEN /\ pc' = "done"
                     /\ outcome' = "Err"
                     /\ UNCHANGED <<cells, dropped>>
                ELSE /\ pc' = "sample"
                     /\ cells' = r.v
                     /\ dropped' = dropped + (points - mesh.nv)
                     /\ UNCHANGED outcome
    /\ UNCHANGED <<builderVars, config, points, iteration, last_displacement, sampled,
                   queryVars, runVars, indexVars, readerVars, sphereVars,
                fibVars,
                meshVars,
                hashVars>>

(* sampler.sample(raw.center, radius), planet.rs:136: the center is the hull *)
(* vertex the cell was built for, named here by its index (the cell id).    *)
SampleArgs(raw, c) == [center |-> raw.id, radius |-> PlanetConfig_radius(c)]

SampleTerrain_backwards ==
    /\ pc = "sample"
    /\ Len(sampled) < Len(cells)
    /\ sampled' = Append(sampled, SampleArgs(cells[Len(cells) - Len(sampled)], config.c))
    /\ UNCHANGED <<builderVars, pc, config, points, iteration, hullCalls, dropped,
                   last_displacement,
                   cells, outcome, queryVars, runVars, indexVars, readerVars, sphereVars,
                fibVars,
                meshVars,
                hashVars>>

(* planet.rs:133-146: the sampler is called for the next raw cell. *)
SampleTerrain ==
    /\ pc = "sample"
    /\ Len(sampled) < Len(cells)
    /\ sampled' = Append(sampled, SampleArgs(cells[Len(sampled) + 1], config.c))
    /\ UNCHANGED <<builderVars, pc, config, points, iteration, hullCalls, dropped,
                   last_displacement,
                   cells, outcome, queryVars, runVars, indexVars, readerVars, sphereVars,
                fibVars,
                meshVars,
                hashVars>>

(* planet.rs:149-161: the spatial index is built and the planet returned. *)
ReturnPlanet ==
    /\ pc = "sample"
    /\ Len(sampled) = Len(cells)
    /\ pc' = "done"
    /\ outcome' = "Ok"
    /\ UNCHANGED <<builderVars, config, points, iteration, hullCalls, dropped,
                   last_displacement,
                   cells, sampled, queryVars, runVars, indexVars, readerVars, sphereVars,
                fibVars,
                meshVars,
                hashVars>>

HasPlanet == pc = "done" /\ outcome = "Ok"
QueryIds == 0..(MaxCells + 1)
NoAnswer == [kind |-> "none", some |-> FALSE, cell |-> RawCell(0, <<>>),
             list |-> <<>>, bag |-> EmptyBag]

QueryGetCell ==
    /\ HasPlanet
    /\ \E id \in QueryIds :
         LET r == get_cell(cells, id)
         IN  /\ query' = [op |-> "get_cell", id |-> id, hops |-> 0]
             /\ answer' = [NoAnswer EXCEPT !.kind = "get_cell", !.some = r.some,
                                           !.cell = r.cell]
    /\ UNCHANGED <<builderVars, pipelineVars, runVars, indexVars, readerVars, sphereVars,
                fibVars,
                meshVars,
                hashVars>>

QueryGetNeighbors ==
    /\ HasPlanet
    /\ \E id \in QueryIds :
         /\ query' = [op |-> "get_neighbors", id |-> id, hops |-> 0]
         /\ answer' = [NoAnswer EXCEPT !.kind = "get_neighbors",
                                       !.list = get_neighbors(cells, id)]
    /\ UNCHANGED <<builderVars, pipelineVars, runVars, indexVars, readerVars, sphereVars,
                fibVars,
                meshVars,
                hashVars>>

QueryWithinRadius ==
    /\ HasPlanet
    /\ \E id \in QueryIds, hops \in 0..MaxHops :
         /\ query' = [op |-> "find_cells_within_radius", id |-> id, hops |-> hops]
         /\ answer' = [NoAnswer EXCEPT !.kind = "find_cells_within_radius",
                           !.bag = find_cells_within_radius(cells, id, hops)]
    /\ UNCHANGED <<builderVars, pipelineVars, runVars, indexVars, readerVars, sphereVars,
                fibVars,
                meshVars,
                hashVars>>

Next ==
    \/ GeneratePoints
    \/ LloydIteration
    \/ GenerateCells
    \/ SampleTerrain
    \/ ReturnPlanet

Spec == Init /\ [][Next]_vars

(* The planets and their queries: generation without relaxation (the cells  *)
(* depend on the final hull pass alone), then any sequence of queries.      *)
InitPlanet ==
    /\ Init
    /\ config.c.lloyd_iterations = 0
    /\ config.c.lloyd_convergence = F(1)

NextPlanet ==
    \/ GeneratePoints
    \/ GenerateCells
    \/ SampleTerrain
    \/ ReturnPlanet
    \/ QueryGetCell
    \/ QueryGetNeighbors
    \/ QueryWithinRadius

SpecPlanet == InitPlanet /\ [][NextPlanet]_vars

-----------------------------------------------------------------------------
(* Two generate_cells runs on the same hull result, each with its own hash  *)
(* iteration order.  HashMap and HashSet (std RandomState) iterate in an    *)
(* order that differs from table to table and run to run: an order is a     *)
(* ranking h of the keys.  voronoi.rs iterates vertex_triangle_map          *)
(* (line 124) and the neighbors set (line 242); triangle_vertex_map is only *)
(* read by key, and lloyd.rs reads its map by key only (line 174).          *)

MaxRunCells == 3    \* largest hull the compared runs are given

HashOrders(n) ==
    {h \in [0..(n - 1) -> 0..(n - 1)] :
        \A i \in 0..(n - 1), j \in 0..(n - 1) : h[i] = h[j] => i = j}

(* The elements of S in the order the table with ranking h yields them. *)
RECURSIVE IterOrder(_, _)
IterOrder(S, h) ==
    IF S = {} THEN <<>>
    ELSE LET m == CHOOSE x \in S : \A y \in S : h[x] <= h[y]
         IN  <<m>> \o IterOrder(S \ {m}, h)

(* Vec::sort on integers. *)
RECURSIVE sort(_)
sort(s) ==
    IF s = <<>> THEN <<>>
    ELSE LET x == Head(s)
             rest == sort(Tail(s))
         IN  SelectSeq(rest, LAMBDA y : y < x) \o <<x>>
                 \o SelectSeq(rest, LAMBDA y : y >= x)

(* sort_by on the angle (stable): s holds triangle indices, the angle of    *)
(* triangle t's circumcenter is angle[t + 1].                               *)
RECURSIVE sort_by_angle(_, _)
sort_by_angle(s, angle) ==
    IF s = <<>> THEN <<>>
    ELSE LET x == Head(s)
             rest == sort_by_angle(Tail(s), angle)
         IN  SelectSeq(rest, LAMBDA y : angle[y + 1] < angle[x + 1]) \o <<x>>
                 \o SelectSeq(rest, LAMBDA y : angle[y + 1] >= angle[x + 1])

order_voronoi_vertices_always(circumcenters, angle) ==
    sort_by_angle(circumcenters, angle)

(* voronoi.rs:178.  A circumcenter is named by its triangle. *)
order_voronoi_vertices(circumcenters, angle) ==
    IF Len(circumcenters) < 3 THEN circumcenters
    ELSE sort_by_angle(circumcenters, angle)

(* voronoi.rs:124-131 for one triangle t: the vertices pushed to its list,  *)
(* in the order the vertex keys are iterated.                               *)
RECURSIVE PushVertices(_, _, _, _)
PushVertices(vertex_triangle_map, keys, k, t) ==
    IF k > Len(keys) THEN <<>>
    ELSE [i \in 1..Count(vertex_triangle_map[keys[k]], t) |-> keys[k]]
             \o PushVertices(vertex_triangle_map, keys, k + 1, t)

build_triangle_vertex_map_hashed(vertex_triangle_map, h) ==
    LET keys == IterOrder(DOMAIN vertex_triangle_map, h)
        tkeys == UNION {SeqToSet(vertex_triangle_map[v]) :
                          v \in DOMAIN vertex_triangle_map}
    IN  [t \in tkeys |-> PushVertices(vertex_triangle_map, keys, 1, t)]

find_cell_neighbors_unsorted(cell_idx, vertex_triangle_map, triangle_vertex_map, h) ==
    LET my_triangles == vertex_triangle_map[cell_idx]
        neighbors == {vertex \in UNION {SeqToSet(triangle_vertex_map[t]) :
                                          t \in SeqToSet(my_triangles)
                                               \cap DOMAIN triangle_vertex_map} :
                        vertex # cell_idx}
        neighbor_list == IterOrder(neighbors, h)
    IN  neighbor_list

find_cell_neighbors_one_triangle(cell_idx, vertex_triangle_map, triangle_vertex_map, h) ==
    LET my_triangles == vertex_triangle_map[cell_idx]
        neighbors == {vertex \in UNION {SeqToSet(triangle_vertex_map[t]) :
                                          t \in {Head(my_triangles)}
                                               \cap DOMAIN triangle_vertex_map} :
                        vertex # cell_idx}
        neighbor_list == IterOrder(neighbors, h)
    IN  sort(neighbor_list)

find_cell_neighbors_hashed(cell_idx, vertex_triangle_map, triangle_vertex_map, h) ==
    LET my_triangles == vertex_triangle_map[cell_idx]
        neighbors == {vertex \in UNION {SeqToSet(triangle_vertex_map[t]) :
                                          t \in SeqToSet(my_triangles)
                                               \cap DOMAIN triangle_vertex_map} :
                        vertex # cell_idx}
        neighbor_list == IterOrder(neighbors, h)
    IN  sort(neighbor_list)

(* generate_cells with the iteration order h of its tables made explicit;   *)
(* a cell is its id, its neighbor list and its boundary (vertices).         *)
generate_cells_hashed(mesh, angle, h) ==
    LET vertex_triangle_map == build_vertex_triangle_map(mesh.tris)
        triangle_vertex_map ==
            build_triangle_vertex_map_hashed(vertex_triangle_map, h)
    IN  IF mesh.panic \/ \E vertex_idx \in 0..(mesh.nv - 1) :
                             vertex_idx \notin DOMAIN vertex_triangle_map
        THEN Panicked
        ELSE Ok([i \in 1..mesh.nv |->
                   [id |-> i - 1,
                    neighbors |->
                        find_cell_neighbors_hashed(i - 1, vertex_triangle_map,
                                                   triangle_vertex_map, h),
                    vertices |->
                        order_voronoi_vertices(vertex_triangle_map[i - 1],
                                               angle)]])

InitRuns ==
    /\ IdleBuilder
    /\ IdlePipeline
    /\ IdleQueries
    /\ IdleIndex
    /\ IdleReaders
    /\ IdleSphere
    /\ IdleFib
    /\ IdleMesh
    /\ IdleHash
    /\ hullMesh \in UNION {convex_hull(n) : n \in 0..MaxRunCells}
    /\ angles \in [1..Len(hullMesh.tris) -> 0..1]
    /\ runs = [r \in 1..2 |-> NotRun]

(* One run: generate_cells on the hull result, under some iteration order;  *)
(* the second run starts after the first has returned.                      *)
RunGenerateCells(r) ==
    /\ runs[r] = NotRun
    /\ \A q \in 1..(r - 1) : runs[q] # NotRun
    /\ \E h \in HashOrders(hullMesh.nv) :
         runs' = [runs EXCEPT ![r] = generate_cells_hashed(hullMesh, angles, h)]
    /\ UNCHANGED <<builderVars, pipelineVars, queryVars, hullMesh, angles, indexVars, readerVars, sphereVars,
                fibVars,
                meshVars,
                hashVars>>

NextRuns == \E r \in 1..2 : RunGenerateCells(r)

SpecRuns == InitRuns /\ [][NextRuns]_vars

-----------------------------------------------------------------------------
(* spatial.rs and planet.rs:149-153, 299: the spatial index.  Here the      *)
(* centers have coordinates: a Vec3 is a triple of integers.  The cells are *)
(* the ones generate_cells builds from the final hull's vertex list: cell   *)
(* i has id i and center vertices[i]; the hull's vertices are distinct      *)
(* points of the sphere (here the unit sphere's six axis points).           *)

MaxCenters == 3     \* largest number of cells the index is built for

SpherePoints ==
    {<<1, 0, 0>>, <<-1, 0, 0>>, <<0, 1, 0>>, <<0, -1, 0>>, <<0, 0, 1>>,
     <<0, 0, -1>>}
QueryPositions == SpherePoints \cup {<<0, 0, 0>>, <<1, 1, 0>>, <<2, 1, 0>>}

HullVertexLists ==
    UNION {{vs \in [1..n -> SpherePoints] :
              \A i \in 1..n, j \in 1..n : vs[i] = vs[j] => i = j} :
           n \in 1..MaxCenters}

(* kiddo SquaredEuclidean::dist. *)
SquaredEuclidean(a, b) ==
    (a[1] - b[1]) * (a[1] - b[1]) + (a[2] - b[2]) * (a[2] - b[2])
        + (a[3] - b[3]) * (a[3] - b[3])

(* ImmutableKdTree::new_from_slice(&points): item i is points[i].  The      *)
(* order in which a search meets the items is the tree's, fixed when it is  *)
(* built and not specified by kiddo: visit is any arrangement of the items. *)
SpatialIndex_reversed(centers, visit) ==
    [built |-> TRUE,
     points |-> [i \in 1..Len(centers) |-> centers[Len(centers) + 1 - i]],
     visit |-> visit]

SpatialIndex_new(centers, visit) ==
    [built |-> TRUE,
     points |-> [i \in 1..Len(centers) |-> centers[i]],
     visit |-> visit]

VisitOrders(n) ==
    {v \in [1..n -> 0..(n - 1)] : \A i \in 1..n, j \in 1..n : v[i] = v[j] => i = j}

(* nearest_one: the first item met that no other item beats. *)
find_nearest_first(index, position) ==
    index.visit[1]

find_nearest(index, position) ==
    LET dist(item) == SquaredEuclidean(index.points[item + 1], position)
        best == CHOOSE k \in 1..Len(index.visit) :
                    /\ \A m \in 1..Len(index.visit) :
                          dist(index.visit[k]) <= dist(index.visit[m])
                    /\ \A m \in 1..(k - 1) :
                          dist(index.visit[m]) > dist(index.visit[k])
    IN  index.visit[best]

find_cell_at(index, position) == find_nearest(index, position)

InitIndex ==
    /\ IdleBuilder
    /\ IdlePipeline
    /\ IdleQueries
    /\ IdleRuns
    /\ planetCells \in {[i \in 1..Len(vs) |-> [id |-> i - 1, center |-> vs[i]]] :
                          vs \in HullVertexLists}
    /\ spatial_index = NoIndex
    /\ lookup = NoLookup
    /\ IdleReaders
    /\ IdleSphere
    /\ IdleFib
    /\ IdleMesh
    /\ IdleHash

(* planet.rs:149-153: the centers of the cells, in cell order, go to        *)
(* SpatialIndex::new.                                                       *)
BuildSpatialIndex ==
    /\ ~spatial_index.built
    /\ LET centers == [i \in 1..Len(planetCells) |-> planetCells[i].center]
       IN  \E visit \in VisitOrders(Len(centers)) :
             spatial_index' = SpatialIndex_new(centers, visit)
    /\ UNCHANGED <<builderVars, pipelineVars, queryVars, runVars, planetCells,
                   lookup, readerVars, sphereVars,
                fibVars,
                meshVars,
                hashVars>>

QueryFindCellAt ==
    /\ spatial_index.built
    /\ \E position \in QueryPositions :
         lookup' = [asked |-> TRUE, position |-> position,
                    id |-> find_cell_at(spatial_index, position)]
    /\ UNCHANGED <<builderVars, pipelineVars, queryVars, runVars, planetCells,
                   spatial_index, readerVars, sphereVars,
                fibVars,
                meshVars,
                hashVars>>

NextIndex ==
    \/ BuildSpatialIndex
    \/ QueryFindCellAt

SpecIndex == InitIndex /\ [][NextIndex]_vars

-----------------------------------------------------------------------------
(* lloyd_relaxation_with_options (lloyd.rs:85) from its entry, for every    *)
(* radius and threshold a built config can carry, then the rest of the      *)
(* pipeline.  The loop is sequential code: once entered it keeps running.   *)

MaxLloydPoints == 1     \* largest point set relaxed under every radius

LloydConfigs ==
    {[seed |-> 0,
      planet_size |-> Custom(n, r),
      lloyd_iterations |-> k,
      lloyd_convergence |-> t,
      terrain_seed |-> 0,
      radius_override |-> NoneF] :
        n \in 0..MaxLloydPoints, r \in {F(-100), F(0), F(100), NaN},
        k \in 1..MaxLloyd, t \in {F(0), F(1), NaN}}

InitLloyd ==
    /\ IdleBuilder
    /\ pc = "lloyd"
    /\ config \in {SomeConfig(c) : c \in LloydConfigs}
    /\ points = generate_sphere_points(PlanetConfig_cell_count(config.c))
    /\ iteration = 0
    /\ hullCalls = 0
    /\ dropped = 0
    /\ last_displacement = F(0)
    /\ cells = <<>>
    /\ sampled = <<>>
    /\ outcome = "running"
    /\ IdleQueries
    /\ IdleRuns
    /\ IdleIndex
    /\ IdleReaders
    /\ IdleSphere
    /\ IdleFib
    /\ IdleMesh
    /\ IdleHash

NextLloyd ==
    \/ LloydIteration
    \/ GenerateCells
    \/ SampleTerrain
    \/ ReturnPlanet

SpecLloyd == InitLloyd /\ [][NextLloyd]_vars /\ WF_vars(LloydIteration)

-----------------------------------------------------------------------------
(* Concurrent readers of one built planet (planet.rs:174-350).  Every query *)
(* takes &self; a reader's step reads the planet and writes its own locals. *)
(* find_cells_within_radius runs level by level, so that other readers'     *)
(* steps fall between its levels; the other queries are single reads.       *)

MaxReaderCells == 2     \* largest planet the concurrent readers share

ReaderCenters ==
    <<<<1, 0, 0>>, <<-1, 0, 0>>, <<0, 1, 0>>, <<0, -1, 0>>, <<0, 0, 1>>,
      <<0, 0, -1>>>>
ReaderPositions == {<<1, 0, 0>>, <<0, 0, 0>>, <<1, 1, 0>>}

(* The planet generate_with_sampler returns for the final hull `mesh`. *)
ReaderPlanets ==
    {mesh \in UNION {convex_hull(n) : n \in 1..MaxReaderCells} :
        ~mesh.panic /\ generate_cells(mesh).tag = "Ok"}

InitReaders ==
    /\ IdleBuilder
    /\ IdleQueries
    /\ IdleRuns
    /\ IdleReaders
    /\ IdleSphere
    /\ IdleFib
    /\ IdleMesh
    /\ IdleHash
    /\ lookup = NoLookup
    /\ \E mesh \in ReaderPlanets :
         LET c == [seed |-> 0,
                   planet_size |-> Custom(mesh.nv, F(100)),
                   lloyd_iterations |-> 0,
                   lloyd_convergence |-> F(1),
                   terrain_seed |-> 0,
                   radius_override |-> NoneF]
             centers == [i \in 1..mesh.nv |-> ReaderCenters[i]]
         IN  /\ config = SomeConfig(c)
             /\ points = mesh.nv
             /\ cells = generate_cells(mesh).v
             /\ sampled = [i \in 1..mesh.nv |-> SampleArgs(cells[i], c)]
             /\ planetCells =
                    [i \in 1..mesh.nv |-> [id |-> i - 1, center |-> centers[i]]]
             /\ spatial_index \in
                    {SpatialIndex_new(centers, visit) :
                        visit \in VisitOrders(mesh.nv)}
    /\ pc = "done"
    /\ outcome = "Ok"
    /\ iteration = 0
    /\ hullCalls = 1
    /\ dropped = 0
    /\ last_displacement = F(0)

ReaderFrame ==
    UNCHANGED <<builderVars, pipelineVars, queryVars, runVars, indexVars,
                sphereVars,
                fibVars,
                meshVars,
                hashVars>>

ReaderIds == 0..Len(cells)

(* planet.rs:225 *)
ReaderGetCell(r) ==
    /\ readers[r].stage = "idle"
    /\ \E id \in ReaderIds :
         readers' = [readers EXCEPT ![r] =
                        [IdleReader EXCEPT !.op = "get_cell", !.stage = "done",
                                           !.id = id,
                                           !.result = get_cell(cells, id)]]
    /\ ReaderFrame

(* planet.rs:243 *)
ReaderCells(r) ==
    /\ readers[r].stage = "idle"
    /\ readers' = [readers EXCEPT ![r] =
                      [IdleReader EXCEPT !.op = "cells", !.stage = "done",
                                         !.result = cells]]
    /\ ReaderFrame

(* planet.rs:264 *)
ReaderGetNeighbors(r) ==
    /\ readers[r].stage = "idle"
    /\ \E id \in ReaderIds :
         readers' = [readers EXCEPT ![r] =
                        [IdleReader EXCEPT !.op = "get_neighbors",
                                           !.stage = "done", !.id = id,
                                           !.result = get_neighbors(cells, id)]]
    /\ ReaderFrame

(* planet.rs:299 *)
ReaderFindCellAt(r) ==
    /\ readers[r].stage = "idle"
    /\ \E position \in ReaderPositions :
         readers' = [readers EXCEPT ![r] =
                        [IdleReader EXCEPT !.op = "find_cell_at",
                                           !.stage = "done",
                                           !.position = position,
                                           !.result = find_cell_at(spatial_index,
                                                                   position)]]
    /\ ReaderFrame

(* planet.rs:328-334: the guard, then the call's own visited and current. *)
ReaderWithinRadiusBegin(r) ==
    /\ readers[r].stage = "idle"
    /\ \E id \in ReaderIds, hops \in 0..MaxHops :
         readers' = [readers EXCEPT ![r] =
                        IF id >= Len(cells)
                        THEN [IdleReader EXCEPT
                                 !.op = "find_cells_within_radius",
                                 !.stage = "done", !.id = id, !.hops = hops,
                                 !.result = EmptyBag]
                        ELSE [IdleReader EXCEPT
                                 !.op = "find_cells_within_radius",
                                 !.stage = "bfs", !.id = id, !.hops = hops,
                                 !.visited = {id}, !.current = <<id>>,
                                 !.left = hops]]
    /\ ReaderFrame

(* The visited set a reader's search consults: a local of the call          *)
(* (planet.rs:332).                                                         *)
ReaderVisited_shared(rs, r) == UNION {rs[q].visited : q \in DOMAIN rs}

ReaderVisited(rs, r) == rs[r].visited

(* planet.rs:337-346: one level of the search. *)
ReaderWithinRadiusLevel(r) ==
    /\ readers[r].stage = "bfs"
    /\ readers[r].left > 0
    /\ LET lvl == ExpandLevel(cells, readers[r].current, 1,
                              ReaderVisited(readers, r), <<>>)
       IN  readers' = [readers EXCEPT ![r].visited = lvl.visited,
                                      ![r].current = lvl.next,
                                      ![r].left = @ - 1]
    /\ ReaderFrame

(* planet.rs:349 *)
ReaderWithinRadiusEnd(r) ==
    /\ readers[r].stage = "bfs"
    /\ readers[r].left = 0
    /\ readers' = [readers EXCEPT ![r].stage = "done",
                                  ![r].result = SetToBag(readers[r].visited),
                                  ![r].visited = {},
                                  ![r].current = <<>>]
    /\ ReaderFrame

(* The caller takes the result; the reader may issue its next query. *)
ReaderReturn(r) ==
    /\ readers[r].stage = "done"
    /\ readers' = [readers EXCEPT ![r] = IdleReader]
    /\ ReaderFrame

NextReaders ==
    \E r \in Readers :
        \/ ReaderGetCell(r)
        \/ ReaderCells(r)
        \/ ReaderGetNeighbors(r)
        \/ ReaderFindCellAt(r)
        \/ ReaderWithinRadiusBegin(r)
        \/ ReaderWithinRadiusLevel(r)
        \/ ReaderWithinRadiusEnd(r)
        \/ ReaderReturn(r)

SpecReaders == InitReaders /\ [][NextReaders]_vars

-----------------------------------------------------------------------------
(* The pipeline with the lengths of its vectors: a point is its length |p|, *)
(* in the unit of the radius.  v.normalize() * radius has length |radius|   *)
(* when v is finite and not zero; glam's normalize divides by the length,   *)
(* so a zero or NaN v gives NaN.  The configs have the early exit disabled  *)
(* (threshold 0): max_displacement is not read.                             *)

MaxSpherePoints == 3    \* largest cell_count whose lengths are followed
MaxSphereLloyd == 1     \* largest lloyd_iterations whose lengths are followed

AbsF(x) == IF x.nan THEN NaN ELSE F(IF x.v < 0 THEN 0 - x.v ELSE x.v)

normalize_times(defined, radius) == IF defined THEN AbsF(radius) ELSE NaN

(* generation/points.rs is not among the sources: every seed point lies on  *)
(* the sphere, as fibonacci.rs:126 (jittered.normalize() * radius) does.    *)
generate_sphere_points_lengths(count, radius) ==
    [i \in 1..count |-> normalize_times(TRUE, radius)]

(* voronoi.rs:172 and lloyd.rs:273: normal.normalize() * radius.  The       *)
(* normal is zero when two corners of the triangle are the same vertex or   *)
(* the vertices are at the origin; distinct points of a sphere are never    *)
(* collinear.                                                               *)
compute_spherical_circumcenter(tri, lengths, radius) ==
    normalize_times(/\ tri[1] # tri[2] /\ tri[2] # tri[3] /\ tri[1] # tri[3]
                    /\ \A i \in 1..3 : /\ ~lengths[tri[i] + 1].nan
                                       /\ lengths[tri[i] + 1].v # 0,
                    radius)

(* The vertices a hull of n points returns are nv of the points, in order. *)
Selections(n, nv) ==
    {f \in [1..nv -> 1..n] : \A i \in 1..nv, j \in 1..nv : i < j => f[i] < f[j]}

(* lloyd.rs:161: the new point of each vertex is the centroid of its        *)
(* circumcenters, normalized and scaled; opposite circumcenters (the two    *)
(* faces of a flat hull) cancel to a zero centroid.                         *)
compute_new_points_lengths(mesh, lengths, radius, cancel) ==
    LET vertex_triangle_map == build_vertex_triangle_map(mesh.tris)
    IN  [i \in 1..mesh.nv |->
            LET adjacent_triangles == vertex_triangle_map[i - 1]
                circumcenters ==
                    [j \in 1..Len(adjacent_triangles) |->
                        compute_spherical_circumcenter(
                            mesh.tris[adjacent_triangles[j] + 1], lengths, radius)]
            IN  normalize_times(
                    /\ \A j \in 1..Len(circumcenters) : ~circumcenters[j].nan
                    /\ ~(cancel /\ Len(circumcenters) >= 2),
                    radius)]

(* voronoi.rs:57-95: the center is the vertex, the boundary its             *)
(* circumcenters; order_voronoi_vertices permutes them and keeps each one.  *)
generate_cells_lengths(mesh, lengths, radius) ==
    LET vertex_triangle_map == build_vertex_triangle_map(mesh.tris)
    IN  [i \in 1..mesh.nv |->
            LET adjacent_triangles == vertex_triangle_map[i - 1]
            IN  [center |-> lengths[i],
                 vertices |->
                    [j \in 1..Len(adjacent_triangles) |->
                        compute_spherical_circumcenter(
                            mesh.tris[adjacent_triangles[j] + 1], lengths,
                            radius)]]]

SphereConfigs ==
    {[seed |-> 0,
      planet_size |-> Custom(n, r),
      lloyd_iterations |-> k,
      lloyd_convergence |-> F(0),
      terrain_seed |-> 0,
      radius_override |-> NoneF] :
        n \in 0..MaxSpherePoints, r \in {F(-100), F(0), F(100)},
        k \in 0..MaxSphereLloyd}

InitSphere ==
    /\ IdleBuilder
    /\ pc = "points"
    /\ config \in {SomeConfig(c) : c \in SphereConfigs}
    /\ points = 0
    /\ iteration = 0
    /\ hullCalls = 0
    /\ dropped = 0
    /\ last_displacement = F(0)
    /\ cells = <<>>
    /\ sampled = <<>>
    /\ outcome = "running"
    /\ IdleQueries
    /\ IdleRuns
    /\ IdleIndex
    /\ IdleReaders
    /\ IdleSphere
    /\ IdleFib
    /\ IdleMesh
    /\ IdleHash

SphereFrame ==
    UNCHANGED <<builderVars, config, last_displacement, sampled, queryVars, runVars,
                indexVars, readerVars, fibVars,
                meshVars,
                hashVars>>

(* generation/mod.rs:22-31 *)
SphereGeneratePoints ==
    /\ pc = "points"
    /\ points' = generate_sphere_points(PlanetConfig_cell_count(config.c))
    /\ pointLengths' =
           generate_sphere_points_lengths(PlanetConfig_cell_count(config.c),
                                          PlanetConfig_radius(config.c))
    /\ pc' = IF config.c.lloyd_iterations > 0 THEN "lloyd" ELSE "cells"
    /\ UNCHANGED <<iteration, hullCalls, dropped, cells, outcome, cellLengths>>
    /\ SphereFrame

(* lloyd.rs:102-149 *)
SphereLloydIteration ==
    /\ pc = "lloyd"
    /\ iteration < config.c.lloyd_iterations
    /\ \E mesh \in convex_hull(points), cancel \in BOOLEAN :
         /\ hullCalls' = hullCalls + 1
         /\ IF mesh.panic \/ compute_new_points(mesh, F(0)).tag = "panic"
            THEN /\ pc' = "done"
                 /\ outcome' = "panic"
                 /\ UNCHANGED <<points, pointLengths, iteration, dropped>>
            ELSE \E kept \in Selections(points, mesh.nv) :
                   /\ points' = mesh.nv
                   /\ pointLengths' =
                          compute_new_points_lengths(
                              mesh, [i \in 1..mesh.nv |-> pointLengths[kept[i]]],
                              PlanetConfig_radius(config.c), cancel)
                   /\ dropped' = dropped + (points - mesh.nv)
                   /\ iteration' = iteration + 1
                   /\ pc' = IF iteration + 1 >= config.c.lloyd_iterations
                            THEN "cells" ELSE "lloyd"
                   /\ UNCHANGED outcome
    /\ UNCHANGED <<cells, cellLengths>>
    /\ SphereFrame

(* voronoi.rs:46-98 *)
SphereGenerateCells ==
    /\ pc = "cells"
    /\ \E mesh \in convex_hull(points) :
         LET r == IF mesh.panic THEN Panicked ELSE generate_cells(mesh)
         IN  /\ hullCalls' = hullCalls + 1
             /\ IF r.tag = "panic"
                THEN /\ pc' = "done"
                     /\ outcome' = "panic"
                     /\ UNCHANGED <<cells, dropped, cellLengths>>
                ELSE \E kept \in Selections(points, mesh.nv) :
                       /\ pc' = "sample"
                       /\ cells' = r.v
                       /\ cellLengths' =
                              generate_cells_lengths(
                                  mesh,
                                  [i \in 1..mesh.nv |-> pointLengths[kept[i]]],
                                  PlanetConfig_radius(config.c))
                       /\ dropped' = dropped + (points - mesh.nv)
                       /\ UNCHANGED outcome
    /\ UNCHANGED <<points, pointLengths, iteration>>
    /\ SphereFrame

NextSphere ==
    \/ SphereGeneratePoints
    \/ SphereLloydIteration
    \/ SphereGenerateCells
    \/ SampleTerrain
    \/ ReturnPlanet

SpecSphere == InitSphere /\ [][NextSphere]_vars

-----------------------------------------------------------------------------
(* The point distributor, generate_fibonacci_sphere_points.  A draw of the  *)
(* ChaCha8 stream is the pair of its seed and its position in the stream:   *)
(* different positions give different values.  The closure of the map takes *)
(* the next two draws of the one rng it captures.  `order` is the order in  *)
(* which the closure is applied to the indices; the iterator of the source  *)
(* applies it in ascending order.                                           *)

MaxFibCount == 3    \* largest count the distributor is given

Ascending(n) == [k \in 1..n |-> k - 1]
Orders(n) ==
    {o \in [1..n -> 0..(n - 1)] : \A a \in 1..n, b \in 1..n : o[a] = o[b] => a = b}

NoRng == [seeded |-> FALSE, seed |-> 0, pos |-> 0]
seed_from_u64(seed) == [seeded |-> TRUE, seed |-> seed, pos |-> 0]
gen_range(rng) == [value |-> <<rng.seed, rng.pos>>,
                   rng |-> [rng EXCEPT !.pos = rng.pos + 1]]
NoPoint == [set |-> FALSE]

(* fibonacci.rs:88-129: the point of index i; the base position depends on  *)
(* i and count, the jitter on the two draws, the length on radius.          *)
FibPoint_indexed(i, rng, radius) ==
    [point |-> [set |-> TRUE, i |-> i, jitter_theta |-> <<rng.seed, 2 * i>>,
                jitter_mag |-> <<rng.seed, 2 * i + 1>>, radius |-> radius],
     rng |-> [rng EXCEPT !.pos = rng.pos + 2]]

FibPoint(i, rng, radius) ==
    LET jitter_theta == gen_range(rng)
        jitter_mag == gen_range(jitter_theta.rng)
    IN  [point |-> [set |-> TRUE, i |-> i, jitter_theta |-> jitter_theta.value,
                    jitter_mag |-> jitter_mag.value, radius |-> radius],
         rng |-> jitter_mag.rng]

(* collect(): the points in index order, however many were produced. *)
collect_short(slots, count) == [k \in 1..(count - 1) |-> slots[k - 1]]

collect(slots, count) == [k \in 1..count |-> slots[k - 1]]

InitFib ==
    /\ IdleBuilder
    /\ IdlePipeline
    /\ IdleQueries
    /\ IdleRuns
    /\ IdleIndex
    /\ IdleReaders
    /\ IdleSphere
    /\ IdleMesh
    /\ IdleHash
    /\ \E count \in 0..MaxFibCount, radius \in {F(-100), F(0), F(100), NaN},
          seed \in SeedInputs :
       \E order \in Orders(count) :
         fib = [pc |-> "start", count |-> count, radius |-> radius, seed |-> seed,
                order |-> order, done |-> 0, rng |-> NoRng,
                slots |-> [i \in 0..(count - 1) |-> NoPoint], points |-> <<>>]

FibFrame ==
    UNCHANGED <<builderVars, pipelineVars, queryVars, runVars, indexVars,
                readerVars, sphereVars, meshVars,
                hashVars>>

(* fibonacci.rs:75-77 *)
FibReturnEmpty ==
    /\ fib.pc = "start"
    /\ fib.count = 0
    /\ fib' = [fib EXCEPT !.pc = "returned", !.points = <<>>]
    /\ FibFrame

(* fibonacci.rs:79-85 *)
FibSeedRng ==
    /\ fib.pc = "start"
    /\ fib.count # 0
    /\ fib' = [fib EXCEPT !.pc = "map", !.rng = seed_from_u64(fib.seed)]
    /\ FibFrame

(* fibonacci.rs:88-129: one application of the closure *)
FibMapPoint ==
    /\ fib.pc = "map"
    /\ fib.done < fib.count
    /\ LET i == fib.order[fib.done + 1]
           r == FibPoint(i, fib.rng, fib.radius)
       IN  fib' = [fib EXCEPT !.slots[i] = r.point, !.rng = r.rng,
                              !.done = fib.done + 1]
    /\ FibFrame

(* fibonacci.rs:130 *)
FibCollect ==
    /\ fib.pc = "map"
    /\ fib.done = fib.count
    /\ fib' = [fib EXCEPT !.pc = "returned",
                          !.points = collect(fib.slots, fib.count)]
    /\ FibFrame

NextFib ==
    \/ FibReturnEmpty
    \/ FibSeedRng
    \/ FibMapPoint
    \/ FibCollect

SpecFib == InitFib /\ [][NextFib]_vars

-----------------------------------------------------------------------------
(* The simple interface lloyd_relaxation(points, radius, iterations): it    *)
(* fills LloydOptions with its iterations argument and the defaults, and    *)
(* runs the loop of lloyd_relaxation_with_options.  The options and the     *)
(* radius are held in the record the loop reads; pc = "cells" is the        *)
(* relaxer having returned its points.                                      *)

LloydOptions_default ==
    [max_iterations |-> DefaultLloydIterations,
     convergence_threshold |-> F(DefaultLloydConvergence)]

lloyd_relaxation(n, radius, iterations) ==
    LET options == [LloydOptions_default EXCEPT !.max_iterations = iterations]
    IN  [seed |-> 0,
         planet_size |-> Custom(n, radius),
         lloyd_iterations |-> options.max_iterations,
         lloyd_convergence |-> options.convergence_threshold,
         terrain_seed |-> 0,
         radius_override |-> NoneF]

InitSimple ==
    /\ IdleBuilder
    /\ pc = "lloyd"
    /\ \E n \in 0..MaxCells, radius \in {F(-100), F(0), F(100), NaN},
          iterations \in 0..MaxLloyd :
         /\ config = SomeConfig(lloyd_relaxation(n, radius, iterations))
         /\ points = n
    /\ iteration = 0
    /\ hullCalls = 0
    /\ dropped = 0
    /\ last_displacement = F(0)
    /\ cells = <<>>
    /\ sampled = <<>>
    /\ outcome = "running"
    /\ IdleQueries
    /\ IdleRuns
    /\ IdleIndex
    /\ IdleReaders
    /\ IdleSphere
    /\ IdleFib
    /\ IdleMesh
    /\ IdleHash

(* lloyd.rs:102: the range 0..max_iterations is exhausted before a pass. *)
LloydLoopEmpty ==
    /\ pc = "lloyd"
    /\ iteration >= config.c.lloyd_iterations
    /\ pc' = "cells"
    /\ UNCHANGED <<builderVars, config, points, iteration, hullCalls, dropped,
                   last_displacement, cells, sampled, outcome, queryVars, runVars,
                   indexVars, readerVars, sphereVars, fibVars,
                meshVars,
                hashVars>>

NextSimple ==
    \/ LloydIteration
    \/ LloydLoopEmpty

SpecSimple == InitSimple /\ [][NextSimple]_vars

-----------------------------------------------------------------------------
(* Mesh generation, generate_mesh_with_visibility.  A planet cell is its    *)
(* id and the length k of its boundary (cell.vertices.len(), the length of  *)
(* the adjacency list it was built from, at least 1).  A vertex of the mesh *)
(* is named <<cell id, j>>: j = 0 is the center, j = 1..k the boundary      *)
(* vertices; its normal and its color are filed at the same position.       *)

MaxMeshCells == 3   \* largest planet a mesh is generated for
MaxFan == 4         \* longest cell boundary tried

MeshData_default ==
    [positions |-> <<>>, normals |-> <<>>, colors |-> <<>>, indices |-> <<>>]

MeshPlanets ==
    UNION {[1..n -> 1..MaxFan] : n \in 0..MaxMeshCells}

(* visible_cells: None, or a slice of ids, some of which may be no cell's. *)
VisibleInputs(n) == {[some |-> FALSE, set |-> {}]}
                        \cup {[some |-> TRUE, set |-> S] : S \in SUBSET (0..n)}

(* The fan of one cell: for i in 0..num_vertices, base, base+1+i, and the   *)
(* next boundary vertex.                                                    *)
RECURSIVE FanIndices_no_wrap(_, _, _)
FanIndices_no_wrap(base_idx, num_vertices, i) ==
    IF i >= num_vertices THEN <<>>
    ELSE <<base_idx, base_idx + 1 + i, base_idx + 1 + (i + 1)>>
             \o FanIndices_no_wrap(base_idx, num_vertices, i + 1)

RECURSIVE FanIndices(_, _, _)
FanIndices(base_idx, num_vertices, i) ==
    IF i >= num_vertices THEN <<>>
    ELSE <<base_idx, base_idx + 1 + i,
           base_idx + 1 + ((i + 1) % num_vertices)>>
             \o FanIndices(base_idx, num_vertices, i + 1)

(* mesh/mod.rs:114-144 *)
triangulate_cell(id, k, color, mesh) ==
    LET base_idx == Len(mesh.positions)
        own == [j \in 1..(k + 1) |-> <<id, j - 1>>]
    IN  [positions |-> mesh.positions \o own,
         normals |-> mesh.normals \o own,
         colors |-> mesh.colors \o [j \in 1..(k + 1) |-> color],
         indices |-> mesh.indices \o FanIndices(base_idx, k, 0)]

InitMesh ==
    /\ IdleBuilder
    /\ IdlePipeline
    /\ IdleQueries
    /\ IdleRuns
    /\ IdleIndex
    /\ IdleReaders
    /\ IdleSphere
    /\ IdleFib
    /\ IdleHash
    /\ \E planet \in MeshPlanets :
       \E visible \in VisibleInputs(Len(planet)) :
         meshgen = [pc |-> "loop", planet |-> planet, visible_set |-> visible,
                    next |-> 1, mesh |-> MeshData_default]

MeshFrame ==
    UNCHANGED <<builderVars, pipelineVars, queryVars, runVars, indexVars,
                readerVars, sphereVars, fibVars, hashVars>>

(* mesh/mod.rs:83-108: the loop body for the next cell *)
MeshCell ==
    /\ meshgen.pc = "loop"
    /\ meshgen.next <= Len(meshgen.planet)
    /\ LET id == meshgen.next - 1
           k == meshgen.planet[meshgen.next]
           is_visible == IF meshgen.visible_set.some
                         THEN id \in meshgen.visible_set.set ELSE TRUE
           color == IF is_visible THEN <<"terrain", id>> ELSE <<"hidden">>
       IN  meshgen' =
               [meshgen EXCEPT
                   !.next = meshgen.next + 1,
                   !.mesh = IF k < 3 THEN meshgen.mesh
                            ELSE triangulate_cell(id, k, color, meshgen.mesh)]
    /\ MeshFrame

(* mesh/mod.rs:110 *)
MeshReturn ==
    /\ meshgen.pc = "loop"
    /\ meshgen.next > Len(meshgen.planet)
    /\ meshgen' = [meshgen EXCEPT !.pc = "returned"]
    /\ MeshFrame

NextMesh ==
    \/ MeshCell
    \/ MeshReturn

SpecMesh == InitMesh /\ [][NextMesh]_vars

-----------------------------------------------------------------------------
(* The Perlin hash, terrain/perlin.rs hash(x, y, z, seed).  A u32 is its    *)
(* four bytes, least significant first, so that the wrapping arithmetic is  *)
(* done at its width.                                                       *)

MaxCoord == 2       \* lattice coordinates tried: -MaxCoord..MaxCoord
LcgMultiplier == 1103515245
LcgIncrement == 12345

PERM ==
    <<151, 160, 137, 91, 90, 15, 131, 13, 201, 95, 96, 53, 194, 233, 7, 225,
      140, 36, 103, 30, 69, 142, 8, 99, 37, 240, 21, 10, 23, 190, 6, 148,
      247, 120, 234, 75, 0, 26, 197, 62, 94, 252, 219, 203, 117, 35, 11, 32,
      57, 177, 33, 88, 237, 149, 56, 87, 174, 20, 125, 136, 171, 168, 68, 175,
      74, 165, 71, 134, 139, 48, 27, 166, 77, 146, 158, 231, 83, 111, 229, 122,
      60, 211, 133, 230, 220, 105, 92, 41, 55, 46, 245, 40, 244, 102, 143, 54,
      65, 25, 63, 161, 1, 216, 80, 73, 209, 76, 132, 187, 208, 89, 18, 169,
      200, 196, 135, 130, 116, 188, 159, 86, 164, 100, 109, 198, 173, 186, 3, 64,
      52, 217, 226, 250, 124, 123, 5, 202, 38, 147, 118, 126, 255, 82, 85, 212,
      207, 206, 59, 227, 47, 16, 58, 17, 182, 189, 28, 42, 223, 183, 170, 213,
      119, 248, 152, 2, 44, 154, 163, 70, 221, 153, 101, 155, 167, 43, 172, 9,
      129, 22, 39, 253, 19, 98, 108, 110, 79, 113, 224, 232, 178, 185, 112, 104,
      218, 246, 97, 228, 251, 34, 242, 193, 238, 210, 144, 12, 191, 179, 162, 241,
      81, 51, 145, 235, 249, 14, 239, 107, 49, 192, 214, 31, 181, 199, 106, 157,
      184, 84, 204, 176, 115, 121, 50, 45, 127, 4, 150, 254, 138, 236, 205, 93,
      222, 114, 67, 29, 24, 72, 243, 141, 128, 195, 78, 66, 215, 61, 156, 180>>

(* v as u32, for an i32 or a small natural v. *)
as_u32(v) == [k \in 1..4 |-> (v \div (256 ^ (k - 1))) % 256]

RECURSIVE Xor8(_, _)
Xor8(a, b) ==
    IF a = 0 THEN b
    ELSE IF b = 0 THEN a
    ELSE ((a + b) % 2) + 2 * Xor8(a \div 2, b \div 2)

BitXor(a, b) == [k \in 1..4 |-> Xor8(a[k], b[k])]

(* a >> (8 * bytes) *)
ShiftRightBytes(a, bytes) ==
    [k \in 1..4 |-> IF k + bytes <= 4 THEN a[k + bytes] ELSE 0]

(* (a & 255), a number *)
And255(a) == a[1]

(* Limb k (from 0) of a * b before carries, and the carry into limb k. *)
MulLimb(a, b, k) ==
    LET Term(i) == a[i + 1] * b[k - i + 1]
    IN  IF k = 0 THEN Term(0)
        ELSE IF k = 1 THEN Term(0) + Term(1)
        ELSE IF k = 2 THEN Term(0) + Term(1) + Term(2)
        ELSE Term(0) + Term(1) + Term(2) + Term(3)

RECURSIVE CarryInto(_, _, _, _)
CarryInto(a, b, add, k) ==
    IF k = 0 THEN 0
    ELSE (MulLimb(a, b, k - 1) + add[k] + CarryInto(a, b, add, k - 1)) \div 256

(* a.wrapping_mul(b).wrapping_add(add) *)
wrapping_mul_add(a, b, add) ==
    [k \in 1..4 |->
        (MulLimb(a, b, k - 1) + add[k] + CarryInto(a, b, add, k - 1)) % 256]

(* perlin.rs:67 *)
SeedHash(seed) ==
    ShiftRightBytes(
        wrapping_mul_add(seed, as_u32(LcgMultiplier), as_u32(LcgIncrement)), 2)

(* perlin.rs:66-74, with the locals it computes *)
hash(x, y, z, seed) ==
    LET seed_hash == SeedHash(seed)
        ix == And255(BitXor(as_u32(x), seed_hash))
        iy == And255(BitXor(as_u32(y), ShiftRightBytes(seed_hash, 1)))
        iz == And255(BitXor(as_u32(z), ShiftRightBytes(seed_hash, 2)))
        a == PERM[ix + 1]
        b == PERM[((a + iy) % 256) + 1]
    IN  [seed_hash |-> seed_hash, ix |-> ix, iy |-> iy, iz |-> iz,
         lookups |-> <<ix, (a + iy) % 256, (b + iz) % 256>>,
         value |-> PERM[((b + iz) % 256) + 1]]

HashSeeds ==
    {<<0, 0, 0, 0>>, <<1, 0, 0, 0>>, <<42, 0, 0, 0>>, <<57, 48, 0, 0>>,
     <<0, 0, 1, 0>>, <<0, 0, 0, 128>>, <<255, 255, 255, 255>>}
HashCoords == (0 - MaxCoord)..MaxCoord

InitHash ==
    /\ IdleBuilder
    /\ IdlePipeline
    /\ IdleQueries
    /\ IdleRuns
    /\ IdleIndex
    /\ IdleReaders
    /\ IdleSphere
    /\ IdleFib
    /\ IdleMesh
    /\ \E x \in HashCoords, y \in HashCoords, z \in HashCoords,
          seed \in HashSeeds :
         hashCall = [pc |-> "called", x |-> x, y |-> y, z |-> z, seed |-> seed]

(* perlin.rs:66-74 *)
HashReturn ==
    /\ hashCall.pc = "called"
    /\ hashCall' =
           [pc |-> "returned", x |-> hashCall.x, y |-> hashCall.y,
            z |-> hashCall.z, seed |-> hashCall.seed,
            r |-> hash(hashCall.x, hashCall.y, hashCall.z, hashCall.seed)]
    /\ UNCHANGED <<builderVars, pipelineVars, queryVars, runVars, indexVars,
                   readerVars, sphereVars, fibVars, meshVars>>

NextHash == HashReturn

SpecHash == InitHash /\ [][NextHash]_vars

-----------------------------------------------------------------------------
(* Properties.                                                              *)

CellIds == 0..(Len(cells) - 1)
Neighbors(id) == SeqToSet(cells[id + 1].neighbors)
CellsBuilt == pc = "sample" \/ (pc = "done" /\ outcome = "Ok")

(* C1: in the cell list generate_cells builds, the neighbor relation is     *)
(* symmetric: b is a neighbor of a exactly when a is a neighbor of b.       *)
C1_NeighborSymmetry ==
    CellsBuilt =>
        \A a \in CellIds, b \in CellIds : (b \in Neighbors(a)) <=> (a \in Neighbors(b))

(* C1 witness: cells were built from a mesh in which some cells are         *)
(* neighbors and some are not.                                              *)
C1_Witness ==
    /\ pc = "sample"
    /\ Len(cells) >= 3
    /\ \E a \in CellIds, b \in CellIds : a < b /\ b \in Neighbors(a)
    /\ \E a \in CellIds, b \in CellIds : a # b /\ b \notin Neighbors(a)

(* x is at most h edges away from c in the neighbor graph. *)
RECURSIVE WithinHops(_, _, _)
WithinHops(c, x, h) ==
    \/ x = c
    \/ /\ h > 0
       /\ \E m \in CellIds : x \in Neighbors(m) /\ WithinHops(c, m, h - 1)

AskedWithinRadius ==
    /\ answer.kind = "find_cells_within_radius"
    /\ query.id < Len(cells)

(* C2: find_cells_within_radius(center, hops) returns each id at most once, *)
(* and returns exactly the cells at graph distance at most hops from center.*)
C2_WithinRadiusIsBall ==
    AskedWithinRadius =>
        /\ \A x \in DOMAIN answer.bag : answer.bag[x] = 1
        /\ BagToSet(answer.bag) =
               {x \in CellIds : WithinHops(query.id, x, query.hops)}

(* C2 witness: a 2-hop search whose second level adds cells that are two    *)
(* edges away from the center.                                              *)
C2_Witness ==
    /\ AskedWithinRadius
    /\ query.hops = 2
    /\ BagCardinality(answer.bag) >= 4
    /\ \E x \in BagToSet(answer.bag) : ~WithinHops(query.id, x, 1)

(* C3: find_cells_within_radius(c, 1) has exactly 1 + len(get_neighbors(c)) *)
(* elements.                                                                *)
C3_OneHopSize ==
    (AskedWithinRadius /\ query.hops = 1) =>
        BagCardinality(answer.bag) = 1 + Len(get_neighbors(cells, query.id))

(* C3 witness: a 1-hop search from a cell with at least two neighbors. *)
C3_Witness ==
    /\ AskedWithinRadius
    /\ query.hops = 1
    /\ Len(get_neighbors(cells, query.id)) >= 2
    /\ BagCardinality(answer.bag) >= 3

(* C4: find_cells_within_radius(c, 0) returns c alone. *)
C4_ZeroHops ==
    (AskedWithinRadius /\ query.hops = 0) =>
        answer.bag = SetToBag({query.id})

(* C4 witness: a 0-hop search from a cell that has neighbors. *)
C4_Witness ==
    /\ AskedWithinRadius
    /\ query.hops = 0
    /\ get_neighbors(cells, query.id) # <<>>
    /\ BagCardinality(answer.bag) = 1

(* C5: for an id >= cell_count(), get_cell returns none, get_neighbors the  *)
(* empty slice and find_cells_within_radius the empty collection.           *)
C5_InvalidIdIsEmpty ==
    (HasPlanet /\ query.op # "none" /\ query.id >= Len(cells)) =>
        /\ answer.kind = "get_cell" => ~answer.some
        /\ answer.kind = "get_neighbors" => answer.list = <<>>
        /\ answer.kind = "find_cells_within_radius" => answer.bag = EmptyBag

(* C5 witness: a search with a positive hop count from the first id past    *)
(* the cells of a non-empty planet.                                         *)
C5_Witness ==
    /\ HasPlanet
    /\ Len(cells) >= 2
    /\ answer.kind = "find_cells_within_radius"
    /\ query.id = Len(cells)
    /\ query.hops > 0
    /\ answer.bag = EmptyBag

C7_ThreePointsFail ==
    PlanetConfig_cell_count(config.c) = 3 =>
        /\ pc # "sample"
        /\ outcome \in {"running", "Err"}

C9_BuiltRadiusPositive ==
    built.some => FGt(PlanetConfig_radius(built.c), F(0))

(* C10: every config a successful build() returns has lloyd_iterations <= 20 *)
(* and lloyd_convergence >= 0.                                              *)
C10_BuiltWithinLimits ==
    built.some =>
        /\ built.c.lloyd_iterations <= MaxLloydIterations
        /\ FGe(built.c.lloyd_convergence, F(0))

(* C11: two runs of generate_cells on the same hull result build the same   *)
(* cell sequence (ids, neighbor lists in order, boundary sequences), or     *)
(* both abort, whatever iteration orders their hash tables have.            *)
C11_RunsAgree ==
    (runs[1] # NotRun /\ runs[2] # NotRun) => runs[1] = runs[2]

(* C11 witness: both runs built three cells, one of them with its two       *)
(* neighbors listed and a boundary long enough to be angle-sorted.          *)
C11_Witness ==
    /\ runs[1].tag = "Ok" /\ runs[2].tag = "Ok"
    /\ Len(runs[1].v) = 3
    /\ \E i \in 1..3 : /\ runs[1].v[i].neighbors = <<1, 2>>
                       /\ Len(runs[2].v[i].vertices) >= 3
                       /\ runs[2].v[i].vertices # build_vertex_triangle_map(hullMesh.tris)[i - 1]

(* C12: the terrain sampler is called only once the cells are built, the    *)
(* k-th call is for cell k - 1 with that cell's center and config.radius(), *)
(* the cells do not change once sampling has begun, and a returned planet   *)
(* has had exactly one call per cell.                                       *)
C12_SampledOncePerCellInOrder ==
    /\ [](/\ sampled # <<>> => pc \in {"sample", "done"}
          /\ Len(sampled) <= Len(cells)
          /\ \A k \in 1..Len(sampled) :
                /\ cells[k].id = k - 1
                /\ sampled[k] = [center |-> k - 1,
                                 radius |-> PlanetConfig_radius(config.c)]
          /\ outcome = "Ok" => Len(sampled) = Len(cells))
    /\ [][sampled # <<>> => cells' = cells]_vars

(* C12 witness: a returned planet of MaxCells cells, relaxed first, whose   *)
(* sampler was called for each cell.                                        *)
C12_Witness ==
    /\ outcome = "Ok"
    /\ iteration > 0
    /\ Len(cells) = MaxCells
    /\ Len(sampled) = MaxCells

(* C13: find_cell_at(cell.center) returns cell.id, for every cell. *)
C13_CenterFindsOwnCell ==
    lookup.asked =>
        \A i \in 1..Len(planetCells) :
            lookup.position = planetCells[i].center => lookup.id = planetCells[i].id

(* C13 witness: with three cells, the center of the last cell was looked up *)
(* in an index that meets another cell first.                               *)
C13_Witness ==
    /\ lookup.asked
    /\ Len(planetCells) = 3
    /\ lookup.position = planetCells[3].center
    /\ spatial_index.visit[1] # 2
    /\ lookup.id = 2

(* The linear reference scan: the lowest id among the centers of minimum    *)
(* squared distance to the position.                                        *)
LinearScan(position) ==
    CHOOSE i \in 0..(Len(planetCells) - 1) :
        /\ \A j \in 0..(Len(planetCells) - 1) :
              SquaredEuclidean(planetCells[i + 1].center, position)
                  <= SquaredEuclidean(planetCells[j + 1].center, position)
        /\ \A j \in 0..(i - 1) :
              SquaredEuclidean(planetCells[j + 1].center, position)
                  > SquaredEuclidean(planetCells[i + 1].center, position)

Nearest(position) ==
    {i \in 0..(Len(planetCells) - 1) :
        \A j \in 0..(Len(planetCells) - 1) :
            SquaredEuclidean(planetCells[i + 1].center, position)
                <= SquaredEuclidean(planetCells[j + 1].center, position)}

ThresholdOn == FGt(config.c.lloyd_convergence, F(0))
BelowThreshold(d) ==
    FLt(d, FMul(config.c.lloyd_convergence, PlanetConfig_radius(config.c)))
LloydReturned == pc \in {"cells", "sample"} \/ outcome = "Ok"

(* C15: the relaxation never runs more than max_iterations iterations; an   *)
(* iteration whose displacement is below threshold x radius, threshold > 0, *)
(* is the last one; the loop is left only after such an iteration or after  *)
(* max_iterations iterations, so with threshold = 0 only after              *)
(* max_iterations; and the loop is always left.                             *)
C15_LloydStops ==
    /\ [](/\ iteration <= config.c.lloyd_iterations
          /\ (iteration > 0 /\ ThresholdOn /\ BelowThreshold(last_displacement))
                => pc # "lloyd"
          /\ LloydReturned =>
                \/ iteration = config.c.lloyd_iterations
                \/ /\ iteration > 0
                   /\ ThresholdOn
                   /\ BelowThreshold(last_displacement)
          /\ (LloydReturned /\ config.c.lloyd_convergence = F(0)) =>
                iteration = config.c.lloyd_iterations)
    /\ [][iteration' # iteration => pc = "lloyd"]_vars
    /\ ((pc = "lloyd") ~> (pc # "lloyd"))

(* C15 witness: the loop was left after its first iteration, short of       *)
(* max_iterations, on a displacement just below threshold x radius.         *)
C15_Witness ==
    /\ pc = "cells"
    /\ config.c.lloyd_iterations = MaxLloyd
    /\ iteration = 1
    /\ ThresholdOn
    /\ last_displacement = F(99)
    /\ points > 0

(* What a query returns when it runs alone on the planet. *)
AloneResult(q) ==
    CASE q.op = "get_cell" -> get_cell(cells, q.id)
      [] q.op = "cells" -> cells
      [] q.op = "get_neighbors" -> get_neighbors(cells, q.id)
      [] q.op = "find_cell_at" -> find_cell_at(spatial_index, q.position)
      [] q.op = "find_cells_within_radius" ->
             find_cells_within_radius(cells, q.id, q.hops)

(* C16: no step of any reader changes the planet's cells, config (and so    *)
(* its radius) or spatial index, and every finished query holds the result  *)
(* the same query returns when run alone.                                   *)
C16_ReadersDoNotInterfere ==
    /\ [](\A r \in Readers :
            readers[r].stage = "done" => readers[r].result = AloneResult(readers[r]))
    /\ [][/\ cells' = cells
          /\ config' = config
          /\ planetCells' = planetCells
          /\ spatial_index' = spatial_index]_vars

(* C16 witness: a reader finished a 2-hop search that reached a neighbor    *)
(* while the other reader was in the middle of a search from another cell.  *)
C16_Witness ==
    \E r \in Readers, q \in Readers :
        /\ r # q
        /\ readers[r].stage = "done"
        /\ readers[r].op = "find_cells_within_radius"
        /\ readers[r].hops = 2
        /\ BagCardinality(readers[r].result) = 2
        /\ readers[q].stage = "bfs"
        /\ readers[q].id # readers[r].id
        /\ readers[q].left < readers[q].hops

GenerationFailed == outcome \in {"Err", "panic"}

C18_IdIsPosition ==
    /\ CellsBuilt =>
          /\ \A i \in 1..Len(cells) : cells[i].id = i - 1
          /\ {cells[i].id : i \in 1..Len(cells)} = 0..(Len(cells) - 1)
    /\ (HasPlanet /\ answer.kind = "get_cell") =>
          /\ answer.some <=> query.id < Len(cells)
          /\ answer.some => answer.cell.id = query.id

(* C18 witness: get_cell of the last id of a planet of MaxCells cells. *)
C18_Witness ==
    /\ HasPlanet
    /\ Len(cells) = MaxCells
    /\ answer.kind = "get_cell"
    /\ query.id = MaxCells - 1
    /\ answer.some
    /\ answer.cell.id = MaxCells - 1

(* The vertices that occur with v in at least one triangle of the hull. *)
SharesTriangle(v) ==
    {u \in 0..(hullMesh.nv - 1) :
        /\ u # v
        /\ \E t \in 1..Len(hullMesh.tris) :
              v \in SeqToSet(hullMesh.tris[t]) /\ u \in SeqToSet(hullMesh.tris[t])}

(* C19: for every vertex v of the hull, the neighbor list of cell v holds   *)
(* exactly the vertices u # v that share a triangle with v, in strictly     *)
(* ascending order (so without duplicates), and every one is a cell id.     *)
C19_NeighborsAreTriangleMates ==
    \A r \in 1..2 :
        runs[r].tag = "Ok" =>
            /\ Len(runs[r].v) = hullMesh.nv
            /\ \A v \in 0..(hullMesh.nv - 1) :
                  LET nbrs == runs[r].v[v + 1].neighbors
                  IN  /\ SeqToSet(nbrs) = SharesTriangle(v)
                      /\ \A i \in 1..(Len(nbrs) - 1) : nbrs[i] < nbrs[i + 1]
                      /\ \A i \in 1..Len(nbrs) :
                            nbrs[i] # v /\ nbrs[i] < Len(runs[r].v)

(* C19 witness: cell 0 has its neighbors 1 and 2 from two different         *)
(* triangles, and cell 1 is a neighbor of cell 0 only.                      *)
C19_Witness ==
    /\ runs[1].tag = "Ok"
    /\ Len(runs[1].v) = 3
    /\ Len(hullMesh.tris) = 2
    /\ runs[1].v[1].neighbors = <<1, 2>>
    /\ runs[1].v[2].neighbors = <<0>>
    /\ runs[1].v[3].neighbors = <<0>>

(* |length - radius| is at most 1% of radius. *)
WithinTolerance(length, radius) ==
    /\ ~length.nan
    /\ ~radius.nan
    /\ 100 * AbsF(F(length.v - radius.v)).v <= radius.v

(* C20: in a generated planet the length of every cell's center and of      *)
(* every boundary point is within 1% of the config radius.                  *)
C20_OnSphere ==
    HasPlanet =>
        \A i \in 1..Len(cellLengths) :
            /\ WithinTolerance(cellLengths[i].center, PlanetConfig_radius(config.c))
            /\ \A j \in 1..Len(cellLengths[i].vertices) :
                  WithinTolerance(cellLengths[i].vertices[j],
                                  PlanetConfig_radius(config.c))

FibReturned == fib.pc = "returned"

(* C21: the distributor returns exactly count points, in index order, for   *)
(* every count, radius and seed; for count = 0 it returns the empty         *)
(* sequence and never seeds or draws from the random generator.             *)
C21_CountPoints ==
    FibReturned =>
        /\ Len(fib.points) = fib.count
        /\ \A k \in 1..Len(fib.points) :
              fib.points[k].set /\ fib.points[k].i = k - 1
        /\ fib.count = 0 => (fib.points = <<>> /\ fib.rng = NoRng)

(* C21 witness: a full-size sequence was returned for a NaN radius. *)
C21_Witness ==
    /\ FibReturned
    /\ fib.count = MaxFibCount
    /\ Len(fib.points) = MaxFibCount
    /\ fib.radius = NaN

(* The draws an index-addressed stream gives point i. *)
IndexedJitter(k) ==
    /\ fib.points[k].jitter_theta = <<fib.seed, 2 * (k - 1)>>
    /\ fib.points[k].jitter_mag = <<fib.seed, 2 * (k - 1) + 1>>

C22_TerrainSeedDefaultsToSeed ==
    built.some =>
        /\ given.seed.some => built.c.seed = given.seed.v
        /\ built.c.terrain_seed =
              IF given.terrain_seed.some THEN given.terrain_seed.v
              ELSE built.c.seed

(* C22 witness: a terrain seed survived a later seed() call with another    *)
(* value.                                                                   *)
C22_Witness ==
    /\ built.some
    /\ given.last = "seed"
    /\ given.terrain_seed = Some(MaxSeed)
    /\ given.seed = Some(0)
    /\ built.c.terrain_seed = MaxSeed
    /\ built.c.seed = 0

(* The triangles of the hull that vertex v is a corner of, and the          *)
(* adjacency list generate_cells reads for v.                               *)
IncidentTriangles(v) ==
    {t \in 0..(Len(hullMesh.tris) - 1) : v \in SeqToSet(hullMesh.tris[t + 1])}
AdjacentTriangles(v) == build_vertex_triangle_map(hullMesh.tris)[v]
SeqToBag(q) == [x \in SeqToSet(q) |-> Count(q, x)]

C25_HullCallsPerPass ==
    /\ [](/\ hullCalls <= config.c.lloyd_iterations + 1
          /\ pc \in {"points", "lloyd", "cells"} => hullCalls = iteration
          /\ CellsBuilt => hullCalls = iteration + 1
          /\ config.c.lloyd_iterations = 0 =>
                /\ pc # "lloyd"
                /\ iteration = 0
                /\ pc = "cells" => points = PlanetConfig_cell_count(config.c)
                /\ CellsBuilt => hullCalls = 1)
    /\ [][/\ hullCalls' # hullCalls =>
                /\ hullCalls' = hullCalls + 1
                /\ pc \in {"lloyd", "cells"}
          /\ pc = "lloyd" => (iteration' # iteration <=> hullCalls' # hullCalls)
                                \/ outcome' = "panic"
          /\ pc = "cells" => pc' # "lloyd"
          /\ pc' = "sample" /\ pc # "sample" => pc = "cells" /\ hullCalls' # hullCalls
       ]_vars

(* C25 witness: a planet was returned after one Lloyd iteration, short of   *)
(* lloyd_iterations, and two hull calls.                                    *)
C25_Witness ==
    /\ HasPlanet
    /\ config.c.lloyd_iterations = MaxLloyd
    /\ iteration = 1
    /\ hullCalls = 2
    /\ Len(cells) > 0

(* C26: when lloyd_relaxation(points, radius, iterations) returns, it has   *)
(* made exactly `iterations` hull-and-recenter passes.                      *)
C26_SimpleRunsAllIterations ==
    pc = "cells" =>
        /\ iteration = config.c.lloyd_iterations
        /\ hullCalls = config.c.lloyd_iterations

(* The vertices of the hull that no triangle holds. *)
Uncovered == {v \in 0..(hullMesh.nv - 1) : IncidentTriangles(v) = {}}

(* C27: the vertex-to-triangle map has an entry for exactly the vertices    *)
(* that occur in a triangle, each entry holding exactly the triangles with  *)
(* that vertex in ascending order; the triangle-to-vertices map built from  *)
(* it under any iteration order is its inverse relation; a hull vertex in   *)
(* no triangle has no entry, and cell building and relaxation fail on such  *)
(* a hull and on no other hull that was returned.                           *)
C27_AdjacencyMaps ==
    runs[1] # NotRun =>
        LET vertex_triangle_map == build_vertex_triangle_map(hullMesh.tris)
        IN  /\ DOMAIN vertex_triangle_map =
                  {v \in 0..MaxCells : IncidentTriangles(v) # {}}
            /\ \A v \in DOMAIN vertex_triangle_map :
                  LET list == vertex_triangle_map[v]
                  IN  /\ SeqToSet(list) = IncidentTriangles(v)
                      /\ \A i \in 1..(Len(list) - 1) : list[i] <= list[i + 1]
            /\ \A h \in HashOrders(hullMesh.nv) :
                  LET triangle_vertex_map ==
                          build_triangle_vertex_map_hashed(vertex_triangle_map, h)
                  IN  /\ DOMAIN triangle_vertex_map =
                            0..(Len(hullMesh.tris) - 1)
                      /\ \A t \in DOMAIN triangle_vertex_map :
                            \A v \in 0..MaxCells :
                                v \in SeqToSet(triangle_vertex_map[t]) <=>
                                    /\ v \in DOMAIN vertex_triangle_map
                                    /\ t \in SeqToSet(vertex_triangle_map[v])
            /\ Uncovered \cap DOMAIN vertex_triangle_map = {}
            /\ ~hullMesh.panic =>
                  /\ runs[1].tag = "panic" <=> Uncovered # {}
                  /\ compute_new_points(hullMesh, F(0)).tag = "panic" <=>
                        Uncovered # {}

(* C27 witness: a hull of three vertices whose two triangles leave the      *)
(* last vertex out; the run that read its entry failed.                     *)
C27_Witness ==
    /\ runs[1].tag = "panic"
    /\ ~hullMesh.panic
    /\ hullMesh.nv = 3
    /\ Len(hullMesh.tris) = 2
    /\ Uncovered = {2}

(* The ids find_cells_within_radius(query.id, h) returns on the planet. *)
Radius(h) == BagToSet(find_cells_within_radius(cells, query.id, h))
AtDistance(h) ==
    {x \in CellIds : WithinHops(query.id, x, h) /\ ~WithinHops(query.id, x, h - 1)}
Component == {x \in CellIds : WithinHops(query.id, x, Len(cells))}

(* C28: for a valid center c and hop count h, the result for h is a subset  *)
(* of the result for h + 1, a proper one when some cell is at graph         *)
(* distance exactly h + 1 from c; when the two are equal the result is the  *)
(* same for every larger hop count and is the connected component of c.     *)
C28_RadiusGrowsThenStays ==
    AskedWithinRadius =>
        /\ BagToSet(answer.bag) = Radius(query.hops)
        /\ Radius(query.hops) \subseteq Radius(query.hops + 1)
        /\ AtDistance(query.hops + 1) # {} =>
              /\ Radius(query.hops) # Radius(query.hops + 1)
              /\ Cardinality(Radius(query.hops)) <
                    Cardinality(Radius(query.hops + 1))
        /\ Radius(query.hops) = Radius(query.hops + 1) =>
              /\ \A k \in 1..(MaxCells + 2) :
                    Radius(query.hops + k) = Radius(query.hops)
              /\ Radius(query.hops) = Component

(* C28 witness: a 1-hop search that a 2-hop search extends by a cell two    *)
(* edges away, after which a third hop adds nothing.                        *)
C28_Witness ==
    /\ AskedWithinRadius
    /\ query.hops = 1
    /\ AtDistance(2) # {}
    /\ Cardinality(BagToSet(answer.bag)) < Cardinality(Radius(2))
    /\ Radius(2) = Radius(3)
    /\ Radius(2) = Component

(* The mesh vertices and the fan triangles that belong to cell id. *)
VerticesOf(id) ==
    {p \in 1..Len(meshgen.mesh.positions) : meshgen.mesh.positions[p][1] = id}
TrianglesOf(id) ==
    {t \in 0..((Len(meshgen.mesh.indices) \div 3) - 1) :
        meshgen.mesh.indices[3 * t + 1] + 1 \in VerticesOf(id)}

(* C29: the returned mesh has as many normals and colors as positions, its  *)
(* index count is a multiple of 3, every index names an existing vertex, a  *)
(* cell with k >= 3 boundary vertices contributes 1 + k vertices and k      *)
(* triangles that start at its center and name only its own vertices, and a *)
(* cell with fewer than 3 boundary vertices contributes nothing.            *)
C29_MeshWellFormed ==
    meshgen.pc = "returned" =>
        LET mesh == meshgen.mesh
        IN  /\ Len(mesh.normals) = Len(mesh.positions)
            /\ Len(mesh.colors) = Len(mesh.positions)
            /\ Len(mesh.indices) % 3 = 0
            /\ \A x \in 1..Len(mesh.indices) :
                  mesh.indices[x] >= 0 /\ mesh.indices[x] < Len(mesh.positions)
            /\ \A c \in 1..Len(meshgen.planet) :
                  LET k == meshgen.planet[c]
                  IN  IF k >= 3
                      THEN /\ Cardinality(VerticesOf(c - 1)) = 1 + k
                           /\ Cardinality(TrianglesOf(c - 1)) = k
                           /\ \A t \in TrianglesOf(c - 1) :
                                 /\ mesh.positions[mesh.indices[3 * t + 1] + 1]
                                       = <<c - 1, 0>>
                                 /\ \A o \in 1..3 :
                                       mesh.indices[3 * t + o] + 1
                                           \in VerticesOf(c - 1)
                      ELSE VerticesOf(c - 1) = {} /\ TrianglesOf(c - 1) = {}
            /\ Len(mesh.indices) \div 3 =
                  Cardinality(UNION {TrianglesOf(c - 1) :
                                        c \in 1..Len(meshgen.planet)})

(* C29 witness: a mesh of a hidden and a visible fan around a skipped cell. *)
C29_Witness ==
    /\ meshgen.pc = "returned"
    /\ Len(meshgen.planet) = 3
    /\ meshgen.planet[1] >= 3
    /\ meshgen.planet[2] < 3
    /\ meshgen.planet[3] = MaxFan
    /\ meshgen.visible_set.some
    /\ meshgen.visible_set.set = {1, 2}
    /\ Len(meshgen.mesh.indices) = 3 * (meshgen.planet[1] + MaxFan)

(* C30: each of the three table indices of hash(x, y, z, seed) can be       *)
(* changed by changing the seed, and every lookup of the permutation table  *)
(* uses an index in 0..255.                                                 *)
C30_SeedMixedIntoAllIndices ==
    hashCall.pc = "returned" =>
        /\ \A i \in 1..3 : hashCall.r.lookups[i] \in 0..255
        /\ \E seed \in HashSeeds :
              hash(hashCall.x, hashCall.y, hashCall.z, seed).ix # hashCall.r.ix
        /\ \E seed \in HashSeeds :
              hash(hashCall.x, hashCall.y, hashCall.z, seed).iy # hashCall.r.iy
        /\ \E seed \in HashSeeds :
              hash(hashCall.x, hashCall.y, hashCall.z, seed).iz # hashCall.r.iz

====
